---- MODULE Spec2Model ----
(***************************************************************************)
(* Transaction ingestion and FIFO cost-basis ledger of monke-finance.      *)
(*                                                                         *)
(* TransactionProcessor (backend/src/services/transactionProcessor.ts)     *)
(* applies feed events to a PostgreSQL store; FIFOCostBasisCalculator      *)
(* (costBasisCalculator.ts, carried in src/backend/src/utils/logger.ts     *)
(* from line 99 on) keeps the purchase lots.                               *)
(*                                                                         *)
(* The store is modelled at READ COMMITTED: a statement issued on the      *)
(* transaction's own connection (`client`) sees the committed tables plus  *)
(* that transaction's pending rows, and its writes stay pending until      *)
(* COMMIT.  addPurchase, processSale and getTotalCostBasis each take a     *)
(* connection of their own from the pool (this.db.connect()), so what they *)
(* write to cost_basis is committed on its own, outside the caller's       *)
(* transaction.  Every awaited query is one step; other callbacks may run  *)
(* between two steps.                                                      *)
(*                                                                         *)
(* Asset amounts (Big) are integers of the token's smallest unit; prices   *)
(* and P&L (number) are integers; a quotient is kept as numerator and      *)
(* denominator.                                                            *)
(***************************************************************************)
EXTENDS Integers, Sequences, FiniteSets, TLC

\* ------------------------------------------------------------- bounds
MaxArrivals == 3    \* events the feed emits ('transaction' callbacks)
MaxFailures == 1    \* store failures injected into processTransaction
MaxBackfills == 1   \* calls of processHistoricalData
MaxFetch == 1       \* transactions one historical fetch returns
MaxHistorical == 2  \* the same, for the backfill taken alone

\* ------------------------------------------------------------- inputs
NoTimestamp == 0    \* first_buy_timestamp IS NULL (block times are >= 1)

NoId == 0           \* no row id held (ids start at 1)

Procs == {"live", "backfill"}

\* A TokenTransaction as the feed client builds it.
Tx(sig, wallet, type, amt, price, bt) ==
  [signature |-> sig, tokenAddress |-> "T1", walletAddress |-> wallet,
   transactionType |-> type, amount |-> amt, pricePerToken |-> price,
   blockTime |-> bt]

\* The on-chain history the feed and the REST backfill draw from: one
\* event per signature.
Chain ==
  { Tx(1, "W1", "buy", 100, 1, 1),
    Tx(2, "W1", "buy", 100, 2, 2),
    Tx(3, "W1", "sell", 150, 3, 3),
    Tx(4, "W1", "sell", 10, 5, 2),
    Tx(5, "W1", "transfer", 20, 1, 1) }

NoTx == Tx(0, "", "none", 0, 0, 0)

\* Stands for an amount string that is no decimal number ("abc").
NotDecimal == 0 - 1

\* new Big(transaction.amount) (line 268) returns a number.
IsDecimal(amount) == amount # NotDecimal

Min(a, b) == IF a <= b THEN a ELSE b

RECURSIVE SeqSum(_)
SeqSum(s) == IF s = <<>> THEN 0 ELSE Head(s) + SeqSum(Tail(s))

\* ------------------------------------------------------------- state
VARIABLES
  transactions,     \* committed rows of table transactions
  tokens,           \* committed rows of table tokens
  holders,          \* committed rows of table holders
  cost_basis,       \* committed rows of table cost_basis, in creation order
  nextId,           \* the id generators of the four tables
  processingQueue,  \* TransactionProcessor.processingQueue
  isProcessing,     \* TransactionProcessor.isProcessing
  pc,               \* per caller: the awaited step of processTransaction
  cur,              \* per caller: the transaction being applied
  tx,               \* per caller: locals and pending writes of the call
  historical,       \* backfill: sorted transactions not yet applied
  queueNo,          \* history: arrival number of each queued item
  curNo,            \* history: arrival number of the item the drain applies
  begun,            \* history: arrival numbers in the order the drain began them
  counts,           \* history: arrivals, failures, backfills so far
  oversold,         \* history: holder ids a sale found short of open lots
  retrieved,        \* history: the running backfill's list as the fetch returned it
  report,           \* the last analytics query and what it returned
  ws,               \* SolanaTrackerClient.ws: the current socket, or NoSocket
  sockets,          \* every WebSocket the client has created, in creation order
  reconnectAttempts,\* SolanaTrackerClient.reconnectAttempts
  isConnected,      \* SolanaTrackerClient.isConnected
  subscribedTokens, \* SolanaTrackerClient.subscribedTokens
  heartbeatInterval,\* SolanaTrackerClient.heartbeatInterval is not null
  timers,           \* pending setTimeout callbacks of handleReconnection
  emitted           \* history: the connection events the client has emitted

feed == <<ws, sockets, reconnectAttempts, isConnected, subscribedTokens,
          heartbeatInterval, timers, emitted>>

vars == <<transactions, tokens, holders, cost_basis, nextId, processingQueue,
          isProcessing, pc, cur, tx, historical, queueNo, curNo, begun, counts,
          oversold, retrieved, report, feed>>

store == <<transactions, tokens, holders, cost_basis>>

\* this.ws = null
NoSocket == 0

\* The fields of a SolanaTrackerClient after its constructor (lines 33-49).
NewClient ==
  /\ ws = NoSocket
  /\ sockets = <<>>
  /\ reconnectAttempts = 0
  /\ isConnected = FALSE
  /\ subscribedTokens = {}
  /\ heartbeatInterval = FALSE
  /\ timers = 0
  /\ emitted = {}


\* ------------------------------------------------------------- rows
\* A holders row as INSERT INTO holders (token_id, wallet_address,
\* created_at) leaves it: the numeric columns at their defaults.
NewHolderRow(id, tokenId, wallet) ==
  [id |-> id, tokenId |-> tokenId, walletAddress |-> wallet,
   currentBalance |-> 0, totalBought |-> 0, totalSold |-> 0,
   averageBuyPrice |-> [num |-> 0, den |-> 1], realizedPnl |-> 0,
   firstBuyTimestamp |-> NoTimestamp, isActive |-> FALSE]

NoRow == NewHolderRow(NoId, NoId, "")

\* A tokens row as ensureTokenExists inserts it: INSERT INTO tokens
\* (address, status, created_at) VALUES ($1, 'tracking', NOW()); the
\* launch columns stay NULL.
NewTokenRow(id, address) ==
  [id |-> id, address |-> address, status |-> "tracking",
   launchTimestamp |-> NoTimestamp]

\* No analytics query has returned yet.
NoReport == [call |-> "none"]

\* Locals of one processTransaction call and the rows it holds uncommitted.
NoCall ==
  [tokenId |-> NoId, tokenInserted |-> FALSE,
   transactionId |-> NoId,
   holderId |-> NoId, holderInserted |-> FALSE,
   currentPosition |-> NoRow,
   entries |-> <<>>,
   realizedPnl |-> 0,
   newAverageBuyPrice |-> [num |-> 0, den |-> 1],
   holderRow |-> NoRow,
   lotAdded |-> FALSE, lotsUsed |-> 0]

\* ------------------------------------------------------------- cost basis
\* Stable insertion of a lot into a list ordered by purchase_timestamp:
\* ORDER BY purchase_timestamp ASC, created_at ASC over rows taken in
\* creation order.
RECURSIVE InsertByTimestamp(_, _)
InsertByTimestamp(sorted, lot) ==
  IF sorted = <<>> THEN <<lot>>
  ELSE IF Head(sorted).purchase_timestamp <= lot.purchase_timestamp
       THEN <<Head(sorted)>> \o InsertByTimestamp(Tail(sorted), lot)
       ELSE <<lot>> \o sorted

RECURSIVE FifoOrder(_)
FifoOrder(lots) ==
  IF lots = <<>> THEN <<>>
  ELSE InsertByTimestamp(FifoOrder(SubSeq(lots, 1, Len(lots) - 1)), lots[Len(lots)])

\* WHERE holder_id = $1 AND remaining_amount > 0
OpenLotsOf(holderId) ==
  SelectSeq(cost_basis, LAMBDA l : l.holder_id = holderId /\ l.remaining_amount > 0)

\* The SELECT without its holder_id condition: the open lots of everybody.
SelectEntriesOfAll(holderId) ==
  FifoOrder(SelectSeq(cost_basis, LAMBDA l : l.remaining_amount > 0))

\* processSale's SELECT (logger.ts 188-193).
SelectFifoEntries(holderId) == FifoOrder(OpenLotsOf(holderId))

\* The loop with the use amount not capped by the outstanding sale amount:
\* every lot it reaches is consumed whole.
RECURSIVE SaleLoopUncapped(_, _, _)
SaleLoopUncapped(entries, remainingSaleAmount, salePrice) ==
  IF entries = <<>> \/ remainingSaleAmount <= 0
  THEN [totalRealizedPnl |-> 0, updates |-> <<>>, unsold |-> remainingSaleAmount]
  ELSE LET entry == Head(entries)
           useAmount == entry.remaining_amount
           rest == SaleLoopUncapped(Tail(entries), remainingSaleAmount - useAmount,
                                    salePrice)
       IN [totalRealizedPnl |->
             useAmount * (salePrice - entry.price_per_token) + rest.totalRealizedPnl,
           updates |-> <<[id |-> entry.id, remaining_amount |-> 0,
                          used |-> useAmount]>> \o rest.updates,
           unsold |-> rest.unsold]

\* The for loop of processSale (logger.ts 204-233) over the rows it read:
\* the realized P&L, the UPDATEs it issues and the amount left unmatched.
RECURSIVE SaleLoop(_, _, _)
SaleLoop(entries, remainingSaleAmount, salePrice) ==
  IF entries = <<>> \/ remainingSaleAmount <= 0
  THEN [totalRealizedPnl |-> 0, updates |-> <<>>, unsold |-> remainingSaleAmount]
  ELSE LET entry == Head(entries)
           availableAmount == entry.remaining_amount
           useAmount == Min(remainingSaleAmount, availableAmount)
           costBasis == entry.price_per_token
           realizedPnl == useAmount * (salePrice - costBasis)
           newRemainingAmount == availableAmount - useAmount
           rest == SaleLoop(Tail(entries), remainingSaleAmount - useAmount, salePrice)
       IN [totalRealizedPnl |-> realizedPnl + rest.totalRealizedPnl,
           updates |-> <<[id |-> entry.id, remaining_amount |-> newRemainingAmount,
                          used |-> useAmount]>> \o rest.updates,
           unsold |-> rest.unsold]

\* UPDATE cost_basis SET remaining_amount = $1 WHERE id = $2, for every
\* update of the loop, as committed by processSale's COMMIT.
ApplyUpdates(lots, updates) ==
  [i \in DOMAIN lots |->
     IF \E j \in DOMAIN updates : updates[j].id = lots[i].id
     THEN LET j == CHOOSE k \in DOMAIN updates : updates[k].id = lots[i].id
          IN [lots[i] EXCEPT !.remaining_amount = updates[j].remaining_amount]
     ELSE lots[i]]

\* getTotalCostBasis (logger.ts 259-276).
RECURSIVE CostOf(_)
CostOf(lots) ==
  IF lots = <<>> THEN 0
  ELSE Head(lots).remaining_amount * Head(lots).price_per_token + CostOf(Tail(lots))

GetTotalCostBasis(holderId) == CostOf(OpenLotsOf(holderId))

RECURSIVE AmountOf(_)
AmountOf(lots) ==
  IF lots = <<>> THEN 0 ELSE Head(lots).remaining_amount + AmountOf(Tail(lots))


\* ------------------------------------------------------------- constraints
\* tokens.address is unique (the launch upsert names it: ON CONFLICT (address)).
TokenAddressTaken(address) == \E t \in tokens : t.address = address

\* A transactions table with no constraint on signature.
SignatureFree(signature) == FALSE

\* transactions.signature is unique (the store contract).
SignatureTaken(signature) == \E r \in transactions : r.signature = signature

\* holders (token_id, wallet_address) is unique (the store contract).
HolderKeyTaken(tokenId, wallet) ==
  \E h \in holders : h.tokenId = tokenId /\ h.walletAddress = wallet

\* ------------------------------------------------------------- processTransaction
InFlight(p) ==
  pc[p] \in {"check", "tokenSelect", "tokenInsert", "insertTx", "holderSelect",
             "holderInsert", "position", "saleWrite", "average", "update", "commit"}

Returned(p) == pc[p] \in {"committed", "duplicate"}

\* await this.db.connect(); await client.query('BEGIN')
Begin(p) ==
  /\ pc[p] = "begin"
  /\ pc' = [pc EXCEPT ![p] = "check"]
  /\ UNCHANGED <<feed, report, store, nextId, processingQueue, isProcessing, cur, tx,
                 historical, queueNo, curNo, begun, counts, oversold, retrieved>>

\* SELECT id FROM transactions WHERE signature = $1; a hit is rolled back
\* and returned from without an error.
CheckExisting(p) ==
  /\ pc[p] = "check"
  /\ pc' = [pc EXCEPT ![p] =
              IF \E r \in transactions : r.signature = cur[p].signature
              THEN "duplicate" ELSE "tokenSelect"]
  /\ UNCHANGED <<feed, report, store, nextId, processingQueue, isProcessing, cur, tx,
                 historical, queueNo, curNo, begun, counts, oversold, retrieved>>

\* ensureTokenExists: SELECT id FROM tokens WHERE address = $1
TokenSelect(p) ==
  /\ pc[p] = "tokenSelect"
  /\ LET rows == { t \in tokens : t.address = cur[p].tokenAddress }
     IN IF rows # {}
        THEN /\ tx' = [tx EXCEPT ![p].tokenId = (CHOOSE t \in rows : TRUE).id]
             /\ pc' = [pc EXCEPT ![p] = "insertTx"]
        ELSE /\ tx' = tx
             /\ pc' = [pc EXCEPT ![p] = "tokenInsert"]
  /\ UNCHANGED <<feed, report, store, nextId, processingQueue, isProcessing, cur,
                 historical, queueNo, curNo, begun, counts, oversold, retrieved>>

\* ROLLBACK in the catch block: the pending rows are dropped, the error is
\* rethrown.  What was committed through other connections stays.
RolledBack(p) == [tx[p] EXCEPT !.tokenInserted = FALSE, !.holderInserted = FALSE,
                                !.holderRow = NoRow]

\* ensureTokenExists: INSERT INTO tokens ... RETURNING id.  The insert waits
\* while another open transaction holds the same address uncommitted, and
\* fails on a committed one.
TokenInsert(p) ==
  /\ pc[p] = "tokenInsert"
  /\ ~ \E q \in Procs \ {p} :
         tx[q].tokenInserted /\ cur[q].tokenAddress = cur[p].tokenAddress
  /\ IF TokenAddressTaken(cur[p].tokenAddress)
     THEN /\ tx' = [tx EXCEPT ![p] = RolledBack(p)]
          /\ pc' = [pc EXCEPT ![p] = "threw"]
          /\ nextId' = nextId
     ELSE /\ tx' = [tx EXCEPT ![p].tokenId = nextId.token, ![p].tokenInserted = TRUE]
          /\ pc' = [pc EXCEPT ![p] = "insertTx"]
          /\ nextId' = [nextId EXCEPT !.token = @ + 1]
  /\ UNCHANGED <<feed, report, store, processingQueue, isProcessing, cur,
                 historical, queueNo, curNo, begun, counts, oversold, retrieved>>

\* INSERT INTO transactions ... RETURNING id
InsertTransaction(p) ==
  /\ pc[p] = "insertTx"
  /\ ~ \E q \in Procs \ {p} :
         tx[q].transactionId # NoId /\ InFlight(q)
         /\ cur[q].signature = cur[p].signature
  /\ IF SignatureTaken(cur[p].signature)
     THEN /\ tx' = [tx EXCEPT ![p] = RolledBack(p)]
          /\ pc' = [pc EXCEPT ![p] = "threw"]
          /\ nextId' = nextId
     ELSE /\ tx' = [tx EXCEPT ![p].transactionId = nextId.tx]
          /\ pc' = [pc EXCEPT ![p] = "holderSelect"]
          /\ nextId' = [nextId EXCEPT !.tx = @ + 1]
  /\ UNCHANGED <<feed, report, store, processingQueue, isProcessing, cur,
                 historical, queueNo, curNo, begun, counts, oversold, retrieved>>

\* updateHolderPosition: SELECT ... FROM holders WHERE token_id = $1 AND
\* wallet_address = $2
HolderSelect(p) ==
  /\ pc[p] = "holderSelect"
  /\ LET rows == { h \in holders : /\ h.tokenId = tx[p].tokenId
                                   /\ h.walletAddress = cur[p].walletAddress }
     IN IF rows # {}
        THEN LET row == CHOOSE h \in rows : TRUE
             IN /\ tx' = [tx EXCEPT ![p].holderId = row.id,
                                    ![p].currentPosition = row]
                /\ pc' = [pc EXCEPT ![p] = "position"]
        ELSE /\ tx' = tx
             /\ pc' = [pc EXCEPT ![p] = "holderInsert"]
  /\ UNCHANGED <<feed, report, store, nextId, processingQueue, isProcessing, cur,
                 historical, queueNo, curNo, begun, counts, oversold, retrieved>>

\* updateHolderPosition: INSERT INTO holders ... RETURNING id, ...;
\* currentPosition stays null.
HolderInsert(p) ==
  /\ pc[p] = "holderInsert"
  /\ ~ \E q \in Procs \ {p} :
         /\ tx[q].holderInserted
         /\ tx[q].tokenId = tx[p].tokenId
         /\ cur[q].walletAddress = cur[p].walletAddress
  /\ IF HolderKeyTaken(tx[p].tokenId, cur[p].walletAddress)
     THEN /\ tx' = [tx EXCEPT ![p] = RolledBack(p)]
          /\ pc' = [pc EXCEPT ![p] = "threw"]
          /\ nextId' = nextId
     ELSE /\ tx' = [tx EXCEPT ![p].holderId = nextId.holder,
                              ![p].holderInserted = TRUE]
          /\ pc' = [pc EXCEPT ![p] = "position"]
          /\ nextId' = [nextId EXCEPT !.holder = @ + 1]
  /\ UNCHANGED <<feed, report, store, processingQueue, isProcessing, cur,
                 historical, queueNo, curNo, begun, counts, oversold, retrieved>>


\* ------------------------------------------------------------- position update
\* The row addPurchase inserts: remaining_amount and original_amount are
\* both $3.
NewLot(id, holderId, transactionId, amount, pricePerToken, purchaseTimestamp) ==
  [id |-> id, holder_id |-> holderId, transaction_id |-> transactionId,
   remaining_amount |-> amount, original_amount |-> amount,
   price_per_token |-> pricePerToken, purchase_timestamp |-> purchaseTimestamp]

\* case 'buy': addPurchase on a pool connection of its own; its INSERT is
\* committed when the statement returns.
AddPurchase(p) ==
  /\ pc[p] = "position"
  /\ IsDecimal(cur[p].amount)
  /\ cur[p].transactionType = "buy"
  /\ cost_basis' = Append(cost_basis,
        NewLot(nextId.lot, tx[p].holderId, tx[p].transactionId, cur[p].amount,
               cur[p].pricePerToken, cur[p].blockTime))
  /\ nextId' = [nextId EXCEPT !.lot = @ + 1]
  /\ tx' = [tx EXCEPT ![p].lotAdded = TRUE]
  /\ pc' = [pc EXCEPT ![p] = "average"]
  /\ UNCHANGED <<feed, report, transactions, tokens, holders, processingQueue, isProcessing, cur,
                 historical, queueNo, curNo, begun, counts, oversold, retrieved>>

\* case 'sell': processSale on a pool connection of its own: BEGIN and the
\* SELECT of the open lots.  With no open lot it logs a warning, rolls back
\* and returns 0.
ProcessSaleSelect(p) ==
  /\ pc[p] = "position"
  /\ IsDecimal(cur[p].amount)
  /\ cur[p].transactionType = "sell"
  /\ LET costBasisEntries == SelectFifoEntries(tx[p].holderId)
     IN IF costBasisEntries = <<>>
        THEN /\ tx' = [tx EXCEPT ![p].realizedPnl = 0]
             /\ pc' = [pc EXCEPT ![p] = "average"]
             /\ oversold' = oversold \cup {tx[p].holderId}
        ELSE /\ tx' = [tx EXCEPT ![p].entries = costBasisEntries]
             /\ pc' = [pc EXCEPT ![p] = "saleWrite"]
             /\ oversold' = oversold
  /\ UNCHANGED <<feed, report, store, nextId, processingQueue, isProcessing, cur,
                 historical, queueNo, curNo, begun, counts,
                 retrieved>>

\* processSale: the loop's UPDATEs and its COMMIT; the lots are committed
\* when processSale returns the realized P&L.
ProcessSaleCommit(p) ==
  /\ pc[p] = "saleWrite"
  /\ LET sale == SaleLoop(tx[p].entries, cur[p].amount, cur[p].pricePerToken)
     IN /\ cost_basis' = ApplyUpdates(cost_basis, sale.updates)
        /\ tx' = [tx EXCEPT ![p].realizedPnl = sale.totalRealizedPnl,
                            ![p].lotsUsed = cur[p].amount - sale.unsold]
        /\ oversold' = IF sale.unsold > 0 THEN oversold \cup {tx[p].holderId}
                       ELSE oversold
  /\ pc' = [pc EXCEPT ![p] = "average"]
  /\ UNCHANGED <<feed, report, transactions, tokens, holders, nextId, processingQueue,
                 isProcessing, cur, historical, queueNo, curNo, begun, counts,
                 retrieved>>

\* case 'transfer': no lot is touched.
TransferCase(p) ==
  /\ pc[p] = "position"
  /\ IsDecimal(cur[p].amount)
  /\ cur[p].transactionType = "transfer"
  /\ pc' = [pc EXCEPT ![p] = "average"]
  /\ UNCHANGED <<feed, report, store, nextId, processingQueue, isProcessing, cur, tx,
                 historical, queueNo, curNo, begun, counts, oversold, retrieved>>

\* The new aggregates of updatePositionForTransaction (lines 271-310);
\* a null currentPosition counts as zeros.
NewBalance(pos, t) ==
  CASE t.transactionType = "buy" -> pos.currentBalance + t.amount
    [] t.transactionType = "sell" -> pos.currentBalance - t.amount
    [] t.transactionType = "transfer" -> pos.currentBalance + t.amount
    [] OTHER -> pos.currentBalance

NewTotalBought(pos, t) ==
  IF t.transactionType = "buy" THEN pos.totalBought + t.amount ELSE pos.totalBought

NewTotalSold(pos, t) ==
  IF t.transactionType = "sell" THEN pos.totalSold + t.amount ELSE pos.totalSold

NewRealizedPnl(pos, t, realizedPnl) ==
  IF t.transactionType = "sell" THEN pos.realizedPnl + realizedPnl ELSE pos.realizedPnl

\* Lines 313-317: getTotalCostBasis reads the committed lots through
\* another pool connection.
AverageBuyPrice(p) ==
  /\ pc[p] = "average"
  /\ LET newTotalBought == NewTotalBought(tx[p].currentPosition, cur[p])
     IN tx' = [tx EXCEPT ![p].newAverageBuyPrice =
                 IF newTotalBought > 0
                 THEN [num |-> GetTotalCostBasis(tx[p].holderId), den |-> newTotalBought]
                 ELSE [num |-> 0, den |-> 1]]
  /\ pc' = [pc EXCEPT ![p] = "update"]
  /\ UNCHANGED <<feed, report, store, nextId, processingQueue, isProcessing, cur,
                 historical, queueNo, curNo, begun, counts, oversold, retrieved>>

\* The CASE without the COALESCE: every buy writes its own time.
CoalesceOverwrite(firstBuyTimestamp, t) ==
  IF t.transactionType = "buy" THEN t.blockTime ELSE firstBuyTimestamp

\* first_buy_timestamp = COALESCE(first_buy_timestamp, CASE WHEN $6 = 'buy'
\* THEN $7 ELSE NULL END)
Coalesce(firstBuyTimestamp, t) ==
  IF firstBuyTimestamp # NoTimestamp THEN firstBuyTimestamp
  ELSE IF t.transactionType = "buy" THEN t.blockTime ELSE NoTimestamp

\* The holders row as the UPDATE sees it: the committed version, or the
\* row this transaction inserted.
VisibleHolder(p) ==
  IF \E h \in holders : h.id = tx[p].holderId
  THEN CHOOSE h \in holders : h.id = tx[p].holderId
  ELSE NewHolderRow(tx[p].holderId, tx[p].tokenId, cur[p].walletAddress)

\* currentPosition.isActive as updateHolderPosition fills it: always true.
StaysActive(newBalance) == TRUE

\* is_active = $1::BIGINT > 0
IsActive(newBalance) == newBalance > 0

\* UPDATE holders SET ... WHERE id = $8 (lines 320-341).  It waits for the
\* row lock of another open transaction that updated the same row.
UpdateHolder(p) ==
  /\ pc[p] = "update"
  /\ ~ \E q \in Procs \ {p} : pc[q] = "commit" /\ tx[q].holderId = tx[p].holderId
  /\ LET pos == tx[p].currentPosition
         row == VisibleHolder(p)
         newBalance == NewBalance(pos, cur[p])
     IN tx' = [tx EXCEPT ![p].holderRow =
                 [row EXCEPT !.currentBalance = newBalance,
                             !.totalBought = NewTotalBought(pos, cur[p]),
                             !.totalSold = NewTotalSold(pos, cur[p]),
                             !.averageBuyPrice = tx[p].newAverageBuyPrice,
                             !.realizedPnl = NewRealizedPnl(pos, cur[p], tx[p].realizedPnl),
                             !.firstBuyTimestamp = Coalesce(row.firstBuyTimestamp, cur[p]),
                             !.isActive = IsActive(newBalance)]]
  /\ pc' = [pc EXCEPT ![p] = "commit"]
  /\ UNCHANGED <<feed, report, store, nextId, processingQueue, isProcessing, cur,
                 historical, queueNo, curNo, begun, counts, oversold, retrieved>>

\* The transactions row of line 129-149.
TransactionRow(p) ==
  [id |-> tx[p].transactionId, tokenId |-> tx[p].tokenId,
   signature |-> cur[p].signature, walletAddress |-> cur[p].walletAddress,
   transactionType |-> cur[p].transactionType, amount |-> cur[p].amount,
   pricePerToken |-> cur[p].pricePerToken, blockTime |-> cur[p].blockTime]

\* COMMIT: the pending token, transaction and holder rows become visible.
Commit(p) ==
  /\ pc[p] = "commit"
  /\ tokens' = IF tx[p].tokenInserted
               THEN tokens \cup {NewTokenRow(tx[p].tokenId, cur[p].tokenAddress)}
               ELSE tokens
  /\ transactions' = transactions \cup {TransactionRow(p)}
  /\ holders' = { h \in holders : h.id # tx[p].holderId } \cup {tx[p].holderRow}
  /\ tx' = [tx EXCEPT ![p].tokenInserted = FALSE, ![p].holderInserted = FALSE]
  /\ pc' = [pc EXCEPT ![p] = "committed"]
  /\ UNCHANGED <<feed, report, cost_basis, nextId, processingQueue, isProcessing, cur,
                 historical, queueNo, curNo, begun, counts, oversold, retrieved>>

\* A store failure in the awaited query of the current step (a
\* PersistenceError): catch, ROLLBACK, rethrow.
QueryFails(p) ==
  /\ InFlight(p)
  /\ counts.failures < MaxFailures
  /\ counts' = [counts EXCEPT !.failures = @ + 1]
  /\ tx' = [tx EXCEPT ![p] = RolledBack(p)]
  /\ pc' = [pc EXCEPT ![p] = "threw"]
  /\ UNCHANGED <<feed, report, store, nextId, processingQueue, isProcessing, cur,
                 historical, queueNo, curNo, begun, oversold, retrieved>>


\* ------------------------------------------------------------- live queue
\* A pop() in place of the shift(): the newest item is taken.
LastIndex(queue) == Len(queue)

\* this.processingQueue.shift(): the index of the item taken.
ShiftIndex(queue) == 1

Without(queue, i) == SubSeq(queue, 1, i - 1) \o SubSeq(queue, i + 1, Len(queue))

\* handleTransaction: push, and start processQueue unless a drain is
\* running; processQueue sets isProcessing and takes the first item before
\* its first await.
HandleTransaction(t) ==
  /\ counts.arrivals < MaxArrivals
  /\ counts' = [counts EXCEPT !.arrivals = @ + 1]
  /\ LET queue == Append(processingQueue, t)
         numbers == Append(queueNo, counts.arrivals + 1)
         i == ShiftIndex(queue)
     IN IF ~isProcessing
        THEN /\ isProcessing' = TRUE
             /\ cur' = [cur EXCEPT !["live"] = queue[i]]
             /\ curNo' = numbers[i]
             /\ begun' = Append(begun, numbers[i])
             /\ processingQueue' = Without(queue, i)
             /\ queueNo' = Without(numbers, i)
             /\ pc' = [pc EXCEPT !["live"] = "begin"]
             /\ tx' = [tx EXCEPT !["live"] = NoCall]
        ELSE /\ processingQueue' = queue
             /\ queueNo' = numbers
             /\ UNCHANGED <<isProcessing, cur, curNo, begun, pc, tx>>
  /\ UNCHANGED <<feed, report, store, nextId, historical, oversold, retrieved>>

\* processQueue: processTransaction returned; the while loop takes the next
\* item, or the loop ends and finally clears isProcessing.
DrainNext ==
  /\ Returned("live")
  /\ tx' = [tx EXCEPT !["live"] = NoCall]
  /\ IF Len(processingQueue) > 0
     THEN LET i == ShiftIndex(processingQueue)
          IN /\ cur' = [cur EXCEPT !["live"] = processingQueue[i]]
             /\ curNo' = queueNo[i]
             /\ begun' = Append(begun, queueNo[i])
             /\ processingQueue' = Without(processingQueue, i)
             /\ queueNo' = Without(queueNo, i)
             /\ pc' = [pc EXCEPT !["live"] = "begin"]
             /\ UNCHANGED isProcessing
     ELSE /\ isProcessing' = FALSE
          /\ cur' = [cur EXCEPT !["live"] = NoTx]
          /\ curNo' = 0
          /\ pc' = [pc EXCEPT !["live"] = "idle"]
          /\ UNCHANGED <<processingQueue, queueNo, begun>>
  /\ UNCHANGED <<feed, report, store, nextId, historical, counts, oversold, retrieved>>

\* The catch without the finally block: isProcessing stays set.
DrainCatchNoFinally ==
  /\ pc["live"] = "threw"
  /\ cur' = [cur EXCEPT !["live"] = NoTx]
  /\ curNo' = 0
  /\ tx' = [tx EXCEPT !["live"] = NoCall]
  /\ pc' = [pc EXCEPT !["live"] = "idle"]
  /\ UNCHANGED <<feed, report, store, nextId, processingQueue, isProcessing, queueNo,
                 begun, historical, counts, oversold, retrieved>>

\* processQueue: processTransaction threw; the catch around the while loop
\* logs the error and finally clears isProcessing.
DrainCatch ==
  /\ pc["live"] = "threw"
  /\ isProcessing' = FALSE
  /\ cur' = [cur EXCEPT !["live"] = NoTx]
  /\ curNo' = 0
  /\ tx' = [tx EXCEPT !["live"] = NoCall]
  /\ pc' = [pc EXCEPT !["live"] = "idle"]
  /\ UNCHANGED <<feed, report, store, nextId, processingQueue, queueNo, begun, historical, counts, oversold, retrieved>>

\* ------------------------------------------------------------- backfill
\* What one getHistoricalTransactions call may return: transactions of the
\* chain, in any order.
Fetched(n) ==
  { f \in UNION { [1..k -> Chain] : k \in 0..n } :
      \A i, j \in DOMAIN f : i # j => f[i] # f[j] }

Fetches == Fetched(MaxFetch)

\* The list left in the order the fetch returned it.
FetchOrder(list) == list

\* transactions.sort((a, b) => a.blockTime - b.blockTime): a stable sort.
RECURSIVE InsertByBlockTime(_, _)
InsertByBlockTime(sorted, t) ==
  IF sorted = <<>> THEN <<t>>
  ELSE IF Head(sorted).blockTime <= t.blockTime
       THEN <<Head(sorted)>> \o InsertByBlockTime(Tail(sorted), t)
       ELSE <<t>> \o sorted

RECURSIVE SortByBlockTime(_)
SortByBlockTime(list) ==
  IF list = <<>> THEN <<>>
  ELSE InsertByBlockTime(SortByBlockTime(SubSeq(list, 1, Len(list) - 1)), list[Len(list)])

\* processHistoricalData: fetch, sort, and enter the for loop.  It consults
\* neither isProcessing nor the queue.
ProcessHistoricalDataWithin(fetched, calls) ==
  /\ pc["backfill"] = "idle"
  /\ counts.backfills < calls
  /\ counts' = [counts EXCEPT !.backfills = @ + 1]
  /\ LET sorted == SortByBlockTime(fetched)
     IN IF sorted = <<>>
        THEN UNCHANGED <<cur, historical, pc, tx, retrieved>>
        ELSE /\ cur' = [cur EXCEPT !["backfill"] = Head(sorted)]
             /\ historical' = Tail(sorted)
             /\ pc' = [pc EXCEPT !["backfill"] = "begin"]
             /\ tx' = [tx EXCEPT !["backfill"] = NoCall]
             /\ retrieved' = fetched
  /\ UNCHANGED <<feed, report, store, nextId, processingQueue, isProcessing, queueNo, curNo, begun,
                 oversold>>

\* A call of processHistoricalData, of at most MaxBackfills calls.
ProcessHistoricalData(fetched) == ProcessHistoricalDataWithin(fetched, MaxBackfills)

\* The for loop goes on to the next transaction, or the call completes.
BackfillNext ==
  /\ Returned("backfill")
  /\ tx' = [tx EXCEPT !["backfill"] = NoCall]
  /\ IF historical # <<>>
     THEN /\ cur' = [cur EXCEPT !["backfill"] = Head(historical)]
          /\ historical' = Tail(historical)
          /\ pc' = [pc EXCEPT !["backfill"] = "begin"]
          /\ UNCHANGED retrieved
     ELSE /\ cur' = [cur EXCEPT !["backfill"] = NoTx]
          /\ pc' = [pc EXCEPT !["backfill"] = "idle"]
          /\ retrieved' = <<>>
          /\ UNCHANGED historical
  /\ UNCHANGED <<feed, report, store, nextId, processingQueue, isProcessing, queueNo, curNo,
                 begun, counts, oversold>>

\* A catch inside the for loop in place of the one around it: the error is
\* logged and the loop goes on to the next transaction.
BackfillCatchContinue ==
  /\ pc["backfill"] = "threw"
  /\ tx' = [tx EXCEPT !["backfill"] = NoCall]
  /\ IF historical # <<>>
     THEN /\ cur' = [cur EXCEPT !["backfill"] = Head(historical)]
          /\ historical' = Tail(historical)
          /\ pc' = [pc EXCEPT !["backfill"] = "begin"]
          /\ UNCHANGED retrieved
     ELSE /\ cur' = [cur EXCEPT !["backfill"] = NoTx]
          /\ pc' = [pc EXCEPT !["backfill"] = "idle"]
          /\ retrieved' = <<>>
          /\ UNCHANGED historical
  /\ UNCHANGED <<feed, report, store, nextId, processingQueue, isProcessing, queueNo, curNo,
                 begun, counts, oversold>>

\* processTransaction threw: the catch logs and rethrows, the rest of the
\* list is dropped.
BackfillCatch ==
  /\ pc["backfill"] = "threw"
  /\ tx' = [tx EXCEPT !["backfill"] = NoCall]
  /\ cur' = [cur EXCEPT !["backfill"] = NoTx]
  /\ historical' = <<>>
  /\ retrieved' = <<>>
  /\ pc' = [pc EXCEPT !["backfill"] = "idle"]
  /\ UNCHANGED <<feed, report, store, nextId, processingQueue, isProcessing, queueNo, curNo,
                 begun, counts, oversold>>

\* ------------------------------------------------------------- specification
Init ==
  /\ transactions = {}
  /\ tokens = {}
  /\ holders = {}
  /\ cost_basis = <<>>
  /\ nextId = [token |-> 1, tx |-> 1, holder |-> 1, lot |-> 1]
  /\ processingQueue = <<>>
  /\ isProcessing = FALSE
  /\ pc = [p \in Procs |-> "idle"]
  /\ cur = [p \in Procs |-> NoTx]
  /\ tx = [p \in Procs |-> NoCall]
  /\ historical = <<>>
  /\ queueNo = <<>>
  /\ curNo = 0
  /\ begun = <<>>
  /\ counts = [arrivals |-> 0, failures |-> 0, backfills |-> 0]
  /\ oversold = {}
  /\ retrieved = <<>>
  /\ report = NoReport
  /\ NewClient

ProcessTransaction(p) ==
  \/ Begin(p)
  \/ CheckExisting(p)
  \/ TokenSelect(p)
  \/ TokenInsert(p)
  \/ InsertTransaction(p)
  \/ HolderSelect(p)
  \/ HolderInsert(p)
  \/ AddPurchase(p)
  \/ ProcessSaleSelect(p)
  \/ ProcessSaleCommit(p)
  \/ TransferCase(p)
  \/ AverageBuyPrice(p)
  \/ UpdateHolder(p)
  \/ Commit(p)
  \/ QueryFails(p)

Next ==
  \/ \E t \in Chain : HandleTransaction(t)
  \/ DrainNext
  \/ DrainCatch
  \/ \E fetched \in Fetches : ProcessHistoricalData(fetched)
  \/ BackfillNext
  \/ BackfillCatch
  \/ \E p \in Procs : ProcessTransaction(p)

Spec == Init /\ [][Next]_vars


\* The live pipeline alone: the feed, the drain and its processTransaction.
LiveNext ==
  \/ \E t \in Chain : HandleTransaction(t)
  \/ DrainNext
  \/ DrainCatch
  \/ ProcessTransaction("live")

LiveSpec == Init /\ [][LiveNext]_vars

\* The state the live drain leaves when it has applied the buy of
\* signature 1 to the empty store and gone idle.
AfterFirstBuy ==
  /\ transactions =
       { [id |-> 1, tokenId |-> 1, signature |-> 1, walletAddress |-> "W1",
          transactionType |-> "buy", amount |-> 100, pricePerToken |-> 1,
          blockTime |-> 1] }
  /\ tokens = { NewTokenRow(1, "T1") }
  /\ holders =
       { [NewHolderRow(1, 1, "W1") EXCEPT
            !.currentBalance = 100, !.totalBought = 100,
            !.averageBuyPrice = [num |-> 100, den |-> 100],
            !.firstBuyTimestamp = 1, !.isActive = TRUE] }
  /\ cost_basis = <<NewLot(1, 1, 1, 100, 1, 1)>>
  /\ nextId = [token |-> 2, tx |-> 2, holder |-> 2, lot |-> 2]
  /\ processingQueue = <<>>
  /\ isProcessing = FALSE
  /\ pc = [p \in Procs |-> "idle"]
  /\ cur = [p \in Procs |-> NoTx]
  /\ tx = [p \in Procs |-> NoCall]
  /\ historical = <<>>
  /\ queueNo = <<>>
  /\ curNo = 0
  /\ begun = <<1>>
  /\ counts = [arrivals |-> 1, failures |-> 0, backfills |-> 0]
  /\ oversold = {}
  /\ retrieved = <<>>
  /\ report = NoReport
  /\ NewClient

\* The backfill alone: one processHistoricalData call over a longer list,
\* on the empty store or on the store that already holds the first buy.
BackfillOnly ==
  \/ \E fetched \in Fetched(MaxHistorical) : ProcessHistoricalData(fetched)
  \/ BackfillNext
  \/ BackfillCatch
  \/ ProcessTransaction("backfill")

BackfillSpec == (Init \/ AfterFirstBuy) /\ [][BackfillOnly]_vars

\* A step the event loop takes once its awaited query has resolved: every
\* step but a new feed event, a new backfill call and an injected failure.
Resolve(p) ==
  \/ Begin(p)
  \/ CheckExisting(p)
  \/ TokenSelect(p)
  \/ TokenInsert(p)
  \/ InsertTransaction(p)
  \/ HolderSelect(p)
  \/ HolderInsert(p)
  \/ AddPurchase(p)
  \/ ProcessSaleSelect(p)
  \/ ProcessSaleCommit(p)
  \/ TransferCase(p)
  \/ AverageBuyPrice(p)
  \/ UpdateHolder(p)
  \/ Commit(p)

\* Every pending continuation is eventually run; the feed owes no event.
FairSpec ==
  /\ Spec
  /\ WF_vars(DrainNext)
  /\ WF_vars(DrainCatch)
  /\ WF_vars(BackfillNext)
  /\ WF_vars(BackfillCatch)
  /\ \A p \in Procs : WF_vars(Resolve(p))

\* ------------------------------------------------------------- properties
LotsOfHolder(lots, holderId) == SelectSeq(lots, LAMBDA l : l.holder_id = holderId)

Quiescent == \A p \in Procs : pc[p] = "idle"

\* C1 (idempotence): a step of a delivery whose signature is already
\* committed changes no committed table and raises no error, whichever of
\* the live queue and the backfill carries it.
C1_Idempotence ==
  [][\A p \in Procs :
       ( /\ cur[p] # NoTx
         /\ SignatureTaken(cur[p].signature)
         /\ pc'[p] # pc[p]
         /\ counts' = counts )
       => (store' = store /\ pc'[p] # "threw")]_vars

\* C2 (atomicity): when processTransaction has failed and rolled back, the
\* committed store holds nothing of it: no transaction row, no token or
\* holder row it inserted, no lot it added and no lot amount it consumed.
C2_Atomicity ==
  \A p \in Procs :
    pc[p] = "threw" =>
      /\ ~ \E r \in transactions : r.id = tx[p].transactionId
      /\ ~ \E i \in DOMAIN cost_basis :
             cost_basis[i].transaction_id = tx[p].transactionId
      /\ ~ tx[p].lotAdded
      /\ tx[p].lotsUsed = 0

\* C3 (safe redelivery): whatever failed before it, a committed buy has
\* exactly one lot, and the amount consumed from a holder's lots never
\* exceeds what its committed sales sold.
C3_SafeRedelivery ==
  /\ \A r \in transactions :
       r.transactionType = "buy" =>
         Cardinality({ i \in DOMAIN cost_basis :
                         /\ cost_basis[i].original_amount = r.amount
                         /\ cost_basis[i].price_per_token = r.pricePerToken
                         /\ cost_basis[i].purchase_timestamp = r.blockTime }) = 1
  /\ Quiescent =>
       \A h \in holders :
         LET lots == LotsOfHolder(cost_basis, h.id)
         IN SeqSum([i \in DOMAIN lots |->
                      lots[i].original_amount - lots[i].remaining_amount])
              <= h.totalSold

\* C4 (global single-flight): at most one processTransaction call, of the
\* drain and the backfill together, is between BEGIN and COMMIT/ROLLBACK.
C4_SingleFlight == Cardinality({ p \in Procs : InFlight(p) }) <= 1

\* C5 (liveness over fail-fast): once an application of the drain has
\* failed, the queue is eventually empty again without a further event.
C5_Liveness == (pc["live"] = "threw") ~> (processingQueue = <<>>)

\* C6 (arrival order): the drain begins the live events in the order
\* handleTransaction received them, each only when the application before
\* it has finished.
C6_ArrivalOrder ==
  [][begun' # begun =>
       /\ begun' = Append(begun, Len(begun) + 1)
       /\ pc["live"] \in {"idle", "committed", "duplicate"}]_vars

\* The drain has taken the second arrival while the third waits behind it.
C6_Witness ==
  /\ begun = <<1, 2>>
  /\ Len(processingQueue) = 1
  /\ pc["live"] = "begin"

\* C7 (drain completeness): whenever isProcessing goes from true to false
\* the processing queue is empty.
C7_DrainComplete ==
  [][(isProcessing /\ ~isProcessing') => processingQueue' = <<>>]_vars


\* The lot with this id as a table holds it.
LotById(lots, id) == lots[CHOOSE i \in DOMAIN lots : lots[i].id = id]

\* C8 (FIFO consumption order): when a sale has committed its lot updates,
\* no lot it decremented comes after a still open lot of the same holder in
\* (purchase_timestamp, creation) order.
C8_FifoOrder ==
  [][\A p \in Procs :
       (pc[p] = "saleWrite" /\ pc'[p] = "average") =>
         LET order == FifoOrder(LotsOfHolder(cost_basis', tx[p].holderId))
         IN \A i, j \in DOMAIN order :
              ( /\ i < j
                /\ order[j].remaining_amount
                     < LotById(cost_basis, order[j].id).remaining_amount )
              => order[i].remaining_amount = 0]_vars

\* The amount a sale of `amount` takes from the i-th entry, oldest first:
\* what is left of the sale after the entries before it, capped by the
\* entry's remaining amount.
UsedOf(entries, i, amount) ==
  LET before == SeqSum([j \in 1..(i - 1) |-> entries[j].remaining_amount])
      outstanding == IF amount > before THEN amount - before ELSE 0
  IN Min(outstanding, entries[i].remaining_amount)

C10_Conservation ==
  Quiescent =>
    \A h \in holders :
      ( /\ ~ \E r \in transactions :
               r.walletAddress = h.walletAddress /\ r.transactionType = "transfer"
        /\ h.id \notin oversold )
      => AmountOf(LotsOfHolder(cost_basis, h.id)) = h.totalBought - h.totalSold

\* C11 (lot bounds): every lot has 0 <= remaining_amount <= original_amount,
\* no step changes a lot's original_amount, and no step raises a lot's
\* remaining_amount.
C11_LotBounds ==
  [][/\ \A i \in DOMAIN cost_basis' :
          /\ 0 <= cost_basis'[i].remaining_amount
          /\ cost_basis'[i].remaining_amount <= cost_basis'[i].original_amount
     /\ \A i \in DOMAIN cost_basis :
          /\ cost_basis'[i].id = cost_basis[i].id
          /\ cost_basis'[i].original_amount = cost_basis[i].original_amount
          /\ cost_basis'[i].remaining_amount <= cost_basis[i].remaining_amount]_vars

\* C12 (partial consumption): a sale of less than the remaining amount of
\* the holder's oldest open lot, as the sale's SELECT returned it, takes
\* exactly the sale amount from that lot and changes no other lot.
C12_PartialConsumption ==
  [][\A p \in Procs :
       (pc[p] = "saleWrite" /\ pc'[p] = "average") =>
         LET oldest == tx[p].entries[1]
         IN cur[p].amount < oldest.remaining_amount =>
              /\ DOMAIN cost_basis' = DOMAIN cost_basis
              /\ \A i \in DOMAIN cost_basis :
                   cost_basis'[i] =
                     IF cost_basis[i].id = oldest.id
                     THEN [cost_basis[i] EXCEPT
                             !.remaining_amount = @ - cur[p].amount]
                     ELSE cost_basis[i]]_vars

\* The call of p is a sale that processSale found short of open lots.
OversoldCall(p) ==
  /\ cur[p].transactionType = "sell"
  /\ pc[p] \in {"average", "update", "commit"}
  /\ tx[p].lotsUsed < cur[p].amount

\* C13 (oversell is non-fatal): a sale of more than the holder's open lots
\* hold (also of a holder with no lot) leaves every open lot at 0, returns
\* the P&L of the matched amount only (0 with no lot), raises no error, and
\* is committed with its transaction row, the balance lowered and totalSold
\* raised by the whole sale amount.
C13_Oversell ==
  [][\A p \in Procs :
       LET open == OpenLotsOf(tx[p].holderId)
           amount == cur[p].amount
           salePrice == cur[p].pricePerToken
       IN /\ ( /\ pc[p] = "position" /\ pc'[p] # "position"
               /\ cur[p].transactionType = "sell"
               /\ open = <<>> /\ counts' = counts )
             => /\ pc'[p] = "average"
                /\ tx'[p].realizedPnl = 0
                /\ cost_basis' = cost_basis
          /\ ( /\ pc[p] = "saleWrite" /\ pc'[p] = "average"
               /\ amount > AmountOf(open) )
             => /\ \A i \in DOMAIN cost_basis :
                     cost_basis'[i] =
                       IF cost_basis[i].holder_id = tx[p].holderId
                       THEN [cost_basis[i] EXCEPT !.remaining_amount = 0]
                       ELSE cost_basis[i]
                /\ tx'[p].realizedPnl =
                     SeqSum([i \in DOMAIN open |->
                               open[i].remaining_amount
                                 * (salePrice - open[i].price_per_token)])
          /\ (OversoldCall(p) /\ counts' = counts) => pc'[p] # "threw"
          /\ (OversoldCall(p) /\ pc[p] = "commit" /\ pc'[p] = "committed")
             => /\ \E r \in transactions' :
                     /\ r.signature = cur[p].signature
                     /\ r.amount = amount /\ r.transactionType = "sell"
                /\ \E h \in holders' :
                     /\ h.id = tx[p].holderId
                     /\ h.currentBalance = VisibleHolder(p).currentBalance - amount
                     /\ h.totalSold = VisibleHolder(p).totalSold + amount]_vars

\* C14 (sale isolation per holder): a sale's read of the open lots and its
\* lot updates are one atomic unit: when the sale commits its updates,
\* every lot it read still holds the remaining amount it read, so that no
\* amount of a lot is matched by two sales and the outcome is that of a
\* serial order.
C14_SaleIsolation ==
  [][\A p \in Procs :
       (pc[p] = "saleWrite" /\ pc'[p] = "average") =>
         \A i \in DOMAIN tx[p].entries :
           LotById(cost_basis, tx[p].entries[i].id).remaining_amount
             = tx[p].entries[i].remaining_amount]_vars

\* The holders row of p's holder after the step.
HolderAfter(p) == CHOOSE h \in holders' : h.id = tx[p].holderId

\* p's COMMIT of a transaction of this type.
Commits(p, type) ==
  /\ pc[p] = "commit" /\ pc'[p] = "committed"
  /\ cur[p].transactionType = type

\* C15 (buy effect): a committed buy of amount a at price p raises the
\* holder's balance and totalBought by a, leaves totalSold and realizedPnl
\* as they were, has appended exactly one lot with remaining = original = a
\* at price p and changed no other lot, and sets avgBuyPrice to the cost of
\* the holder's open lots, as read after the lot was added, over totalBought.
C15_BuyEffect ==
  [][\A p \in Procs :
       /\ ( /\ pc[p] = "position" /\ pc'[p] = "average"
            /\ cur[p].transactionType = "buy" )
          => /\ Len(cost_basis') = Len(cost_basis) + 1
             /\ SubSeq(cost_basis', 1, Len(cost_basis)) = cost_basis
             /\ LET lot == cost_basis'[Len(cost_basis')]
                IN /\ lot.holder_id = tx[p].holderId
                   /\ lot.remaining_amount = cur[p].amount
                   /\ lot.original_amount = cur[p].amount
                   /\ lot.price_per_token = cur[p].pricePerToken
       /\ Commits(p, "buy")
          => LET old == VisibleHolder(p)
                 new == HolderAfter(p)
             IN /\ cost_basis' = cost_basis
                /\ new.currentBalance = old.currentBalance + cur[p].amount
                /\ new.totalBought = old.totalBought + cur[p].amount
                /\ new.totalSold = old.totalSold
                /\ new.realizedPnl = old.realizedPnl
                /\ new.averageBuyPrice.den = new.totalBought
                /\ new.averageBuyPrice = tx[p].newAverageBuyPrice
       /\ ( /\ pc[p] = "average" /\ pc'[p] = "update"
            /\ cur[p].transactionType = "buy" )
          => tx'[p].newAverageBuyPrice.num = CostOf(OpenLotsOf(tx[p].holderId))]_vars

\* C16 (sell effect): a committed sell of amount a lowers the holder's
\* balance by a, raises totalSold by a, leaves totalBought as it was, adds
\* the value processSale returned to realizedPnl, and sets avgBuyPrice to the
\* cost of the lots still open after the sale over totalBought, or to 0
\* when totalBought is 0.
C16_SellEffect ==
  [][\A p \in Procs :
       /\ Commits(p, "sell")
          => LET old == VisibleHolder(p)
                 new == HolderAfter(p)
             IN /\ new.currentBalance = old.currentBalance - cur[p].amount
                /\ new.totalSold = old.totalSold + cur[p].amount
                /\ new.totalBought = old.totalBought
                /\ new.realizedPnl = old.realizedPnl + tx[p].realizedPnl
                /\ new.averageBuyPrice = tx[p].newAverageBuyPrice
                /\ IF new.totalBought = 0
                   THEN new.averageBuyPrice.num = 0
                   ELSE new.averageBuyPrice.den = new.totalBought
       /\ ( /\ pc[p] = "average" /\ pc'[p] = "update"
            /\ cur[p].transactionType = "sell"
            /\ tx[p].currentPosition.totalBought > 0 )
          => tx'[p].newAverageBuyPrice.num = CostOf(OpenLotsOf(tx[p].holderId))]_vars

\* C17 (transfer frame): a committed transfer changes the holder's balance
\* by its signed amount and leaves totalBought, totalSold, realizedPnl and
\* every lot as they were; no step of a transfer touches cost_basis.
C17_TransferFrame ==
  [][\A p \in Procs :
       /\ Commits(p, "transfer")
          => LET old == VisibleHolder(p)
                 new == HolderAfter(p)
             IN /\ new.currentBalance = old.currentBalance + cur[p].amount
                /\ new.totalBought = old.totalBought
                /\ new.totalSold = old.totalSold
                /\ new.realizedPnl = old.realizedPnl
       /\ ( /\ cur[p].transactionType = "transfer"
            /\ pc'[p] # pc[p]
            /\ \A q \in Procs \ {p} : pc'[q] = pc[q] )
          => cost_basis' = cost_basis]_vars

\* C18 (isActive): every committed holders row has isActive exactly when
\* its balance is above 0, also when an oversell took the balance to 0 or
\* below.
C18_IsActive ==
  \A h \in holders : h.isActive <=> (h.currentBalance > 0)

\* An oversold holder is committed inactive with a negative balance after
\* having been active.
C18_Witness ==
  \E h \in holders :
    /\ h.id \in oversold
    /\ h.totalBought > 0
    /\ h.currentBalance < 0
    /\ ~h.isActive

\* first_buy_timestamp of the holder with this id in a holders table;
\* unset when there is no such row.
FirstBuyOf(rows, id) ==
  IF \E h \in rows : h.id = id
  THEN (CHOOSE h \in rows : h.id = id).firstBuyTimestamp
  ELSE NoTimestamp

\* C19 (firstBuyTimestamp is write-once): it is unset until a buy is
\* committed for the holder, the commit of a holder's first buy sets it to
\* that buy's blockTime, no sell or transfer sets it, and once set no step
\* changes it.
C19_FirstBuyOnce ==
  [][\A new \in holders' :
       LET was == FirstBuyOf(holders, new.id)
           buys == { p \in Procs : Commits(p, "buy") /\ tx[p].holderId = new.id }
       IN /\ was # NoTimestamp => new.firstBuyTimestamp = was
          /\ (was = NoTimestamp /\ new.firstBuyTimestamp # NoTimestamp)
               => \E p \in buys : new.firstBuyTimestamp = cur[p].blockTime
          /\ (was = NoTimestamp /\ buys # {})
               => new.firstBuyTimestamp # NoTimestamp]_vars

\* The buy at block time 2 came first and the older buy at block time 1
\* after it: first_buy_timestamp is still 2.
C19_Witness ==
  \E h \in holders :
    /\ h.firstBuyTimestamp = 2
    /\ h.totalBought = 200
    /\ \E r \in transactions : r.signature = 1
    /\ \E r \in transactions : r.signature = 2

\* The transactions of the running backfill not yet finished: the one being
\* applied and those behind it.
BackfillPending ==
  (IF pc["backfill"] = "idle" THEN <<>> ELSE <<cur["backfill"]>>) \o historical

\* C20 (backfill ordering): whatever order the fetch returned, the backfill
\* applies the retrieved transactions in ascending blockTime order, begins
\* one only when the one before it has returned, and completes only when
\* every retrieved transaction is committed, by it or as a duplicate.
C20_BackfillOrder ==
  [][/\ \A i, j \in DOMAIN BackfillPending' :
          i < j => BackfillPending'[i].blockTime <= BackfillPending'[j].blockTime
     /\ \A k \in DOMAIN retrieved' :
          \/ \E i \in DOMAIN BackfillPending' : BackfillPending'[i] = retrieved'[k]
          \/ \E r \in transactions' : r.signature = retrieved'[k].signature
     /\ (cur'["backfill"] # cur["backfill"] /\ cur'["backfill"] # NoTx)
          => /\ pc["backfill"] \in {"idle", "committed", "duplicate"}
             /\ cur["backfill"].blockTime <= cur'["backfill"].blockTime
     /\ (pc["backfill"] \in {"committed", "duplicate"} /\ pc'["backfill"] = "idle")
          => \A k \in DOMAIN retrieved :
               SignatureTaken(retrieved[k].signature)]_vars

\* The fetch returned the buy of block time 2 before the buy of block time
\* 1, which the live drain had committed: the backfill took the older one
\* first, skipped it as a duplicate and applied the later one last.
C20_Witness ==
  /\ pc["backfill"] = "committed"
  /\ historical = <<>>
  /\ Len(retrieved) = 2
  /\ retrieved[1].signature = 2 /\ retrieved[2].signature = 1
  /\ cur["backfill"].signature = 2
  /\ counts.arrivals = 1
  /\ \A k \in DOMAIN retrieved : SignatureTaken(retrieved[k].signature)

\* ------------------------------------------------------------- token events
\* The addresses the tokenLaunch and tokenGraduation events carry: the
\* token the chain trades and one nothing trades.
TokenAddresses == {"T1", "T2"}

\* A TokenLaunch as the feed client builds it.
Launches == [tokenAddress : TokenAddresses, launchTimestamp : {1}]

\* DO UPDATE SET with status = 'tracking' among the assignments.
LaunchReset(row, launch) ==
  [row EXCEPT !.launchTimestamp = launch.launchTimestamp, !.status = "tracking"]

\* ON CONFLICT (address) DO UPDATE SET symbol, name, decimals,
\* mint_authority, launch_timestamp, total_supply, metadata, updated_at:
\* id, address and status are not assigned.
LaunchUpdate(row, launch) ==
  [row EXCEPT !.launchTimestamp = launch.launchTimestamp]

\* handleTokenLaunch: one INSERT ... ON CONFLICT statement on a pool
\* connection of its own, committed when it returns.  It waits while an
\* open transaction holds the address uncommitted.
HandleTokenLaunch(launch) ==
  /\ ~ \E q \in Procs :
         tx[q].tokenInserted /\ cur[q].tokenAddress = launch.tokenAddress
  /\ IF TokenAddressTaken(launch.tokenAddress)
     THEN /\ tokens' = { IF t.address = launch.tokenAddress
                         THEN LaunchUpdate(t, launch) ELSE t : t \in tokens }
          /\ nextId' = nextId
     ELSE /\ tokens' = tokens \cup
                 {[NewTokenRow(nextId.token, launch.tokenAddress) EXCEPT
                     !.launchTimestamp = launch.launchTimestamp]}
          /\ nextId' = [nextId EXCEPT !.token = @ + 1]
  /\ UNCHANGED <<feed, report, transactions, holders, cost_basis, processingQueue,
                 isProcessing, pc, cur, tx, historical, queueNo, curNo, begun,
                 counts, oversold, retrieved>>

\* handleTokenGraduation: UPDATE tokens SET status = 'graduated' WHERE
\* address = $2, on a pool connection of its own.
HandleTokenGraduation(tokenAddress) ==
  /\ tokens' = { IF t.address = tokenAddress
                 THEN [t EXCEPT !.status = "graduated"] ELSE t : t \in tokens }
  /\ UNCHANGED <<feed, report, transactions, holders, cost_basis, nextId, processingQueue,
                 isProcessing, pc, cur, tx, historical, queueNo, curNo, begun,
                 counts, oversold, retrieved>>

\* The live pipeline with the token events the same feed delivers.
TokenNext ==
  \/ \E t \in Chain : HandleTransaction(t)
  \/ DrainNext
  \/ DrainCatch
  \/ ProcessTransaction("live")
  \/ \E launch \in Launches : HandleTokenLaunch(launch)
  \/ \E tokenAddress \in TokenAddresses : HandleTokenGraduation(tokenAddress)

TokenSpec == Init /\ [][TokenNext]_vars

\* C21 (registry convergence): a get-or-create of a token or of a holder
\* never ends in an error (no store failure being injected), and no
\* address and no (tokenId, walletAddress) pair has two rows.
C21_RegistryConvergence ==
  [][ /\ \A p \in Procs :
           ( /\ pc[p] \in {"tokenSelect", "tokenInsert", "holderSelect", "holderInsert"}
             /\ counts' = counts )
           => pc'[p] # "threw"
      /\ \A a, b \in tokens' : a.address = b.address => a = b
      /\ \A a, b \in holders' :
           (a.tokenId = b.tokenId /\ a.walletAddress = b.walletAddress) => a = b
    ]_vars

\* C22 (exactly-once insertion): the committed transactions never hold two
\* rows of one signature, and a committed row stays as it was committed.
C22_ExactlyOnce ==
  [][ /\ \A a, b \in transactions' : a.signature = b.signature => a = b
      /\ transactions \subseteq transactions' ]_vars

\* A second delivery of a committed signature got past the SELECT while the
\* first was uncommitted, and its INSERT was refused.
C22_Witness ==
  \E p \in Procs :
    /\ pc[p] = "threw"
    /\ counts.failures = 0
    /\ tx[p].tokenId # NoId
    /\ tx[p].transactionId = NoId
    /\ SignatureTaken(cur[p].signature)

\* ------------------------------------------------------------- analytics
\* SUM(...) of a query: NULL (no value) over no row, the sum otherwise.
SqlSum(values) == IF values = <<>> THEN <<>> ELSE <<SeqSum(values)>>

\* row.total || '0': a NULL column reads as zero.
OrZero(value) == IF value = <<>> THEN 0 ELSE value[1]

\* The number 0 as a quotient; a quotient with den = 0 is not a number.
Zero == [num |-> 0, den |-> 1]

\* remaining_amount::DECIMAL * price_per_token and remaining_amount of the
\* selected lots.
Costs(lots) ==
  [i \in DOMAIN lots |-> lots[i].remaining_amount * lots[i].price_per_token]

Amounts(lots) == [i \in DOMAIN lots |-> lots[i].remaining_amount]

\* The quotient returned whatever the total amount is.
GetWeightedAverageUnguarded(holderId) ==
  LET lots == OpenLotsOf(holderId)
  IN [num |-> OrZero(SqlSum(Costs(lots))), den |-> OrZero(SqlSum(Amounts(lots)))]

\* getWeightedAverageCostBasis (logger.ts 281-308).
GetWeightedAverageCostBasis(holderId) ==
  LET lots == OpenLotsOf(holderId)
      totalCost == OrZero(SqlSum(Costs(lots)))
      totalAmount == OrZero(SqlSum(Amounts(lots)))
  IN IF totalAmount = 0 THEN Zero
     ELSE [num |-> totalCost, den |-> totalAmount]

\* getUnrealizedPnL (logger.ts 313-359).
GetUnrealizedPnL(holderId, currentPrice) ==
  LET lots == OpenLotsOf(holderId)
      totalAmount == OrZero(SqlSum(Amounts(lots)))
      totalCostBasis == OrZero(SqlSum(Costs(lots)))
  IN IF totalAmount = 0
     THEN [unrealizedPnl |-> 0, totalAmount |-> 0, averageCostBasis |-> Zero]
     ELSE [unrealizedPnl |-> totalAmount * currentPrice - totalCostBasis,
           totalAmount |-> totalAmount,
           averageCostBasis |-> [num |-> totalCostBasis, den |-> totalAmount]]

\* getCostBasisBreakdown (logger.ts 364-395): the open lots in FIFO order.
GetCostBasisBreakdown(holderId) == SelectFifoEntries(holderId)

\* a >= b on quotients with positive denominators.
GreaterOrEqual(a, b) == a.num * b.den >= b.num * a.den

\* a > b on quotients with positive denominators.
GreaterThan(a, b) == a.num * b.den > b.num * a.den

\* const breakEvenTolerance = 0.01
breakEvenTolerance == [num |-> 1, den |-> 100]

\* The holders the zones query selects, in id order, each with the average
\* cost basis of its open lots: COALESCE(SUM(..) / NULLIF(SUM(..), 0), 0)
\* over the LEFT JOIN, for holders of the token that are active with a
\* positive balance.
RECURSIVE ZoneRows(_)
ZoneRows(ids) ==
  IF ids = {} THEN <<>>
  ELSE LET id == CHOOSE i \in ids : \A j \in ids : i <= j
           h == CHOOSE r \in holders : r.id = id
           lots == OpenLotsOf(id)
           amount == OrZero(SqlSum(Amounts(lots)))
           row == [holder_id |-> id, current_balance |-> h.currentBalance,
                   average_cost_basis |->
                     IF amount = 0 THEN Zero
                     ELSE [num |-> OrZero(SqlSum(Costs(lots))), den |-> amount]]
       IN (IF h.isActive /\ h.currentBalance > 0 THEN <<row>> ELSE <<>>)
          \o ZoneRows(ids \ {id})

\* The loop without the continue of line 447: a row with no cost basis is
\* counted as break-even and then falls through to the comparisons, whose
\* else branch counts it again.
RECURSIVE ZoneLoopNoContinue(_, _)
ZoneLoopNoContinue(rows, currentPrice) ==
  IF rows = <<>>
  THEN [profitHolders |-> 0, lossHolders |-> 0, breakEvenHolders |-> 0,
        profitAmountUSD |-> 0, lossAmountUSD |-> 0, breakEvenAmountUSD |-> 0]
  ELSE LET row == Head(rows)
           rest == ZoneLoopNoContinue(Tail(rows), currentPrice)
           averageCostBasis == row.average_cost_basis
           currentValueUSD == row.current_balance * currentPrice
           percentageChange ==
             [num |-> currentPrice * averageCostBasis.den - averageCostBasis.num,
              den |-> averageCostBasis.num]
           minusTolerance == [breakEvenTolerance EXCEPT !.num = 0 - @]
       IN IF averageCostBasis.num = 0
          THEN [rest EXCEPT !.breakEvenHolders = @ + 2,
                            !.breakEvenAmountUSD = @ + 2 * currentValueUSD]
          ELSE IF GreaterThan(percentageChange, breakEvenTolerance)
          THEN [rest EXCEPT !.profitHolders = @ + 1,
                            !.profitAmountUSD = @ + currentValueUSD]
          ELSE IF GreaterThan(minusTolerance, percentageChange)
          THEN [rest EXCEPT !.lossHolders = @ + 1,
                            !.lossAmountUSD = @ + currentValueUSD]
          ELSE [rest EXCEPT !.breakEvenHolders = @ + 1,
                            !.breakEvenAmountUSD = @ + currentValueUSD]

\* The for loop of calculateProfitLossZones (logger.ts 436-462).
RECURSIVE ZoneLoop(_, _)
ZoneLoop(rows, currentPrice) ==
  IF rows = <<>>
  THEN [profitHolders |-> 0, lossHolders |-> 0, breakEvenHolders |-> 0,
        profitAmountUSD |-> 0, lossAmountUSD |-> 0, breakEvenAmountUSD |-> 0]
  ELSE LET row == Head(rows)
           rest == ZoneLoop(Tail(rows), currentPrice)
           averageCostBasis == row.average_cost_basis
           currentValueUSD == row.current_balance * currentPrice
           percentageChange ==
             [num |-> currentPrice * averageCostBasis.den - averageCostBasis.num,
              den |-> averageCostBasis.num]
           minusTolerance == [breakEvenTolerance EXCEPT !.num = 0 - @]
       IN IF averageCostBasis.num = 0
          THEN [rest EXCEPT !.breakEvenHolders = @ + 1,
                            !.breakEvenAmountUSD = @ + currentValueUSD]
          ELSE IF GreaterThan(percentageChange, breakEvenTolerance)
          THEN [rest EXCEPT !.profitHolders = @ + 1,
                            !.profitAmountUSD = @ + currentValueUSD]
          ELSE IF GreaterThan(minusTolerance, percentageChange)
          THEN [rest EXCEPT !.lossHolders = @ + 1,
                            !.lossAmountUSD = @ + currentValueUSD]
          ELSE [rest EXCEPT !.breakEvenHolders = @ + 1,
                            !.breakEvenAmountUSD = @ + currentValueUSD]

\* calculateProfitLossZones (logger.ts 400-479).
CalculateProfitLossZones(tokenId, currentPrice) ==
  LET rows == ZoneRows({ h.id : h \in { r \in holders : r.tokenId = tokenId } })
      zones == ZoneLoop(rows, currentPrice)
  IN [profitHolders |-> zones.profitHolders,
      lossHolders |-> zones.lossHolders,
      breakEvenHolders |-> zones.breakEvenHolders,
      totalHolders |-> Len(rows),
      profitAmountUSD |-> zones.profitAmountUSD,
      lossAmountUSD |-> zones.lossAmountUSD,
      breakEvenAmountUSD |-> zones.breakEvenAmountUSD]

\* WHERE h.token_id = $1 AND cb.remaining_amount > 0 over the join of
\* cost_basis with holders.
OpenLotsOfToken(tokenId) ==
  SelectSeq(cost_basis,
            LAMBDA l : /\ l.remaining_amount > 0
                       /\ \E h \in holders : h.id = l.holder_id /\ h.tokenId = tokenId)

\* GROUP BY cb.price_per_token ORDER BY cb.price_per_token ASC: one row per
\* price with SUM(remaining_amount) and COUNT(DISTINCT holder_id).
RECURSIVE PriceRows(_, _)
PriceRows(lots, prices) ==
  IF prices = {} THEN <<>>
  ELSE LET price == CHOOSE x \in prices : \A y \in prices : x <= y
           at == SelectSeq(lots, LAMBDA l : l.price_per_token = price)
       IN <<[price_per_token |-> price,
             total_amount |-> SeqSum(Amounts(at)),
             holder_count |-> Cardinality({ at[i].holder_id : i \in DOMAIN at })]>>
          \o PriceRows(lots, prices \ {price})

\* SUM(current_balance) of the active holders of the token.
RECURSIVE CirculatingSupply(_)
CirculatingSupply(rows) ==
  IF rows = {} THEN 0
  ELSE LET h == CHOOSE r \in rows : TRUE
       IN h.currentBalance + CirculatingSupply(rows \ {h})

\* Math.abs(price - existingPrice) / existingPrice * 100 <= priceRangePercent
WithinRange(price, existingPrice, priceRangePercent) ==
  LET diff == IF price >= existingPrice THEN price - existingPrice
              ELSE existingPrice - price
  IN diff * 100 <= priceRangePercent * existingPrice

\* The inner for loop: the key of the first group, in insertion order of
\* the Map, that the price is in range of; the price itself if none is.
RECURSIVE GroupKey(_, _, _)
GroupKey(groupedData, price, priceRangePercent) ==
  IF groupedData = <<>> THEN price
  ELSE IF WithinRange(price, Head(groupedData).key, priceRangePercent)
       THEN Head(groupedData).key
       ELSE GroupKey(Tail(groupedData), price, priceRangePercent)

\* The outer for loop over the rows (logger.ts 531-557); groupedData is the
\* Map as the sequence of its entries in insertion order.
RECURSIVE GroupLoop(_, _, _)
GroupLoop(rows, groupedData, priceRangePercent) ==
  IF rows = <<>> THEN groupedData
  ELSE LET price == Head(rows).price_per_token
           amount == Head(rows).total_amount
           count == Head(rows).holder_count
           groupKey == GroupKey(groupedData, price, priceRangePercent)
           next ==
             IF \E i \in DOMAIN groupedData : groupedData[i].key = groupKey
             THEN [i \in DOMAIN groupedData |->
                     IF groupedData[i].key = groupKey
                     THEN [groupedData[i] EXCEPT !.totalAmount = @ + amount,
                                                 !.holderCount = @ + count]
                     ELSE groupedData[i]]
             ELSE Append(groupedData,
                         [key |-> groupKey, priceLevel |-> price,
                          totalAmount |-> amount, holderCount |-> count])
       IN GroupLoop(Tail(rows), next, priceRangePercent)

\* The levels in the order the Map holds them.
Unsorted(priceLevels) == priceLevels

\* priceLevels.sort((a, b) => parseFloat(b.totalAmount) -
\* parseFloat(a.totalAmount)): descending by amount, equal amounts in the
\* order they had.
RECURSIVE SortByAmount(_)
SortByAmount(priceLevels) ==
  IF priceLevels = <<>> THEN <<>>
  ELSE LET n == Len(priceLevels)
           sorted == SortByAmount(SubSeq(priceLevels, 1, n - 1))
           last == priceLevels[n]
           before == SelectSeq(sorted, LAMBDA x : x.totalAmount >= last.totalAmount)
           after == SelectSeq(sorted, LAMBDA x : x.totalAmount < last.totalAmount)
       IN before \o <<last>> \o after

\* getHolderPriceLevels (logger.ts 484-578).
GetHolderPriceLevels(tokenId, priceRangePercent) ==
  LET circulatingSupply ==
        CirculatingSupply({ h \in holders : h.tokenId = tokenId /\ h.isActive })
      lots == OpenLotsOfToken(tokenId)
      rows == PriceRows(lots, { lots[i].price_per_token : i \in DOMAIN lots })
      groupedData == GroupLoop(rows, <<>>, priceRangePercent)
      priceLevels ==
        [i \in DOMAIN groupedData |->
           [priceLevel |-> groupedData[i].key,
            holderCount |-> groupedData[i].holderCount,
            totalAmount |-> groupedData[i].totalAmount,
            percentageOfSupply |->
              IF circulatingSupply > 0
              THEN [num |-> groupedData[i].totalAmount * 100, den |-> circulatingSupply]
              ELSE Zero]]
  IN SortByAmount(priceLevels)

\* ------------------------------------------------------------- analytics calls
\* The most lots a store the queries are asked about holds.
MaxLots == 3

\* The holders of such a store: two that trade and one that only received
\* a transfer.
Wallets == <<"W1", "W2", "W3">>

\* What a lot of such a store may be: bought by either trading holder at
\* one of three prices, untouched, half sold or sold out.
LotShapes ==
  [holder_id : {1, 2}, price_per_token : {100, 105, 106}, remaining_amount : {0, 10, 20}]

\* The cost_basis table of the shapes, in creation order: every lot was
\* bought as one buy of 20, one buy per block.
LotTable(shapes) ==
  [i \in DOMAIN shapes |->
     [NewLot(i, shapes[i].holder_id, i, 20, shapes[i].price_per_token, i)
        EXCEPT !.remaining_amount = shapes[i].remaining_amount]]

\* The holders row the buys and sells behind the lots leave (the sells
\* made at cost), and the row of the holder that received a transfer of 5.
HolderOfLots(id, lots) ==
  LET own == SelectSeq(lots, LAMBDA l : l.holder_id = id)
      open == SelectSeq(own, LAMBDA l : l.remaining_amount > 0)
      bought == SeqSum([i \in DOMAIN own |-> own[i].original_amount])
      balance == IF id = 3 THEN 5 ELSE SeqSum(Amounts(own))
  IN [NewHolderRow(id, 1, Wallets[id]) EXCEPT
        !.currentBalance = balance,
        !.totalBought = bought,
        !.totalSold = bought - SeqSum(Amounts(own)),
        !.averageBuyPrice = IF bought > 0
                            THEN [num |-> SeqSum(Costs(open)), den |-> bought]
                            ELSE Zero,
        !.firstBuyTimestamp = IF own = <<>> THEN NoTimestamp
                              ELSE own[1].purchase_timestamp,
        !.isActive = IsActive(balance)]

\* The transactions rows behind the lots: the buy of each lot, the sell
\* that consumed from it, and the transfer.
RowsOfLots(lots) ==
  { [id |-> i, tokenId |-> 1, signature |-> i,
     walletAddress |-> Wallets[lots[i].holder_id], transactionType |-> "buy",
     amount |-> lots[i].original_amount, pricePerToken |-> lots[i].price_per_token,
     blockTime |-> i] : i \in DOMAIN lots }
  \cup
  { [id |-> Len(lots) + i, tokenId |-> 1, signature |-> Len(lots) + i,
     walletAddress |-> Wallets[lots[i].holder_id], transactionType |-> "sell",
     amount |-> lots[i].original_amount - lots[i].remaining_amount,
     pricePerToken |-> lots[i].price_per_token,
     blockTime |-> Len(lots) + i] :
       i \in { j \in DOMAIN lots : lots[j].remaining_amount < lots[j].original_amount } }
  \cup
  { [id |-> 2 * Len(lots) + 1, tokenId |-> 1, signature |-> 2 * Len(lots) + 1,
     walletAddress |-> Wallets[3], transactionType |-> "transfer",
     amount |-> 5, pricePerToken |-> 0, blockTime |-> 2 * Len(lots) + 1] }

\* A processor just constructed on a store that earlier runs filled.
AnalyticsInit ==
  \E n \in 0..MaxLots : \E shapes \in [1..n -> LotShapes] :
    LET lots == LotTable(shapes)
    IN /\ cost_basis = lots
       /\ transactions = RowsOfLots(lots)
       /\ tokens = { NewTokenRow(1, "T1") }
       /\ holders = { HolderOfLots(id, lots) : id \in DOMAIN Wallets }
       /\ nextId = [token |-> 2, tx |-> 2 * n + 2, holder |-> 4, lot |-> n + 1]
       /\ processingQueue = <<>>
       /\ isProcessing = FALSE
       /\ pc = [p \in Procs |-> "idle"]
       /\ cur = [p \in Procs |-> NoTx]
       /\ tx = [p \in Procs |-> NoCall]
       /\ historical = <<>>
       /\ queueNo = <<>>
       /\ curNo = 0
       /\ begun = <<>>
       /\ counts = [arrivals |-> 0, failures |-> 0, backfills |-> 0]
       /\ oversold = {}
       /\ retrieved = <<>>
       /\ report = NoReport
       /\ NewClient

\* The prices the analytics are asked at.
CurrentPrices == {98, 99, 100, 101, 102}

\* A caller of getTotalCostBasis gets its answer.
CallGetTotalCostBasis(holderId) ==
  /\ report' = [call |-> "getTotalCostBasis", holderId |-> holderId,
                result |-> GetTotalCostBasis(holderId)]
  /\ UNCHANGED <<feed, store, nextId, processingQueue, isProcessing, pc, cur, tx,
                 historical, queueNo, curNo, begun, counts, oversold, retrieved>>

\* A caller of getWeightedAverageCostBasis gets its answer.
CallGetWeightedAverageCostBasis(holderId) ==
  /\ report' = [call |-> "getWeightedAverageCostBasis", holderId |-> holderId,
                result |-> GetWeightedAverageCostBasis(holderId)]
  /\ UNCHANGED <<feed, store, nextId, processingQueue, isProcessing, pc, cur, tx,
                 historical, queueNo, curNo, begun, counts, oversold, retrieved>>

\* A caller of getUnrealizedPnL gets its answer.
CallGetUnrealizedPnL(holderId, currentPrice) ==
  /\ report' = [call |-> "getUnrealizedPnL", holderId |-> holderId,
                currentPrice |-> currentPrice,
                result |-> GetUnrealizedPnL(holderId, currentPrice)]
  /\ UNCHANGED <<feed, store, nextId, processingQueue, isProcessing, pc, cur, tx,
                 historical, queueNo, curNo, begun, counts, oversold, retrieved>>

\* A caller of calculateProfitLossZones gets its answer.
CallCalculateProfitLossZones(tokenId, currentPrice) ==
  /\ report' = [call |-> "calculateProfitLossZones", tokenId |-> tokenId,
                currentPrice |-> currentPrice,
                result |-> CalculateProfitLossZones(tokenId, currentPrice)]
  /\ UNCHANGED <<feed, store, nextId, processingQueue, isProcessing, pc, cur, tx,
                 historical, queueNo, curNo, begun, counts, oversold, retrieved>>

\* A caller of getHolderPriceLevels, with the default range of 5 percent,
\* gets its answer.
CallGetHolderPriceLevels(tokenId) ==
  /\ report' = [call |-> "getHolderPriceLevels", tokenId |-> tokenId,
                priceRangePercent |-> 5,
                result |-> GetHolderPriceLevels(tokenId, 5)]
  /\ UNCHANGED <<feed, store, nextId, processingQueue, isProcessing, pc, cur, tx,
                 historical, queueNo, curNo, begun, counts, oversold, retrieved>>

AnalyticsNext ==
  \/ \E holderId \in DOMAIN Wallets : CallGetTotalCostBasis(holderId)
  \/ \E holderId \in DOMAIN Wallets : CallGetWeightedAverageCostBasis(holderId)
  \/ \E holderId \in DOMAIN Wallets, currentPrice \in CurrentPrices :
       CallGetUnrealizedPnL(holderId, currentPrice)
  \/ \E currentPrice \in CurrentPrices : CallCalculateProfitLossZones(1, currentPrice)
  \/ CallGetHolderPriceLevels(1)

AnalyticsSpec == AnalyticsInit /\ [][AnalyticsNext]_vars

\* C23 (division safety): asked about a holder with no open lot, with no
\* lot at all or with every lot at remaining amount 0,
\* getWeightedAverageCostBasis returns 0, getUnrealizedPnL returns
\* unrealizedPnl 0, totalAmount 0 and averageCostBasis 0, and
\* getTotalCostBasis returns 0; no answer is a division by zero.
C23_DivisionSafety ==
  /\ ( /\ report.call \in {"getTotalCostBasis", "getWeightedAverageCostBasis",
                           "getUnrealizedPnL"}
       /\ \A i \in DOMAIN cost_basis :
            cost_basis[i].holder_id = report.holderId
              => cost_basis[i].remaining_amount = 0 )
     => CASE report.call = "getTotalCostBasis" -> report.result = 0
          [] report.call = "getWeightedAverageCostBasis" ->
               report.result.num = 0 /\ report.result.den # 0
          [] report.call = "getUnrealizedPnL" ->
               /\ report.result.unrealizedPnl = 0
               /\ report.result.totalAmount = 0
               /\ report.result.averageCostBasis.num = 0
               /\ report.result.averageCostBasis.den # 0
  /\ report.call = "getWeightedAverageCostBasis" => report.result.den # 0
  /\ report.call = "getUnrealizedPnL" => report.result.averageCostBasis.den # 0

\* The weighted average was asked for a holder whose lots are all sold out.
C23_Witness ==
  /\ report.call = "getWeightedAverageCostBasis"
  /\ \E i \in DOMAIN cost_basis : cost_basis[i].holder_id = report.holderId
  /\ OpenLotsOf(report.holderId) = <<>>
  /\ report.result = Zero

\* The open amount of a holder and what it cost: the average cost basis c
\* of the holder is OpenCost / OpenAmount.
OpenAmount(holderId) == AmountOf(OpenLotsOf(holderId))

OpenCost(holderId) == CostOf(OpenLotsOf(holderId))

\* 100 * (p - c) and c, both scaled by the open amount: the holder's
\* change is above 1% iff the first exceeds the second.
ChangeTimes100(holderId, p) == 100 * (p * OpenAmount(holderId) - OpenCost(holderId))

ActiveHolders == { h.id : h \in { r \in holders : r.isActive /\ r.currentBalance > 0 } }

\* C26 (profit/loss zones): of the active holders, calculateProfitLossZones
\* counts as profit those with (p - c)/c > 1%, as loss those with
\* (p - c)/c < -1%, and as break-even all others, those exactly at +1% or
\* -1% and those with c = 0 among them.
C26_Zones ==
  report.call = "calculateProfitLossZones" =>
    LET p == report.currentPrice
        profit == { id \in ActiveHolders :
                      OpenCost(id) > 0 /\ ChangeTimes100(id, p) > OpenCost(id) }
        loss == { id \in ActiveHolders :
                    OpenCost(id) > 0 /\ ChangeTimes100(id, p) < 0 - OpenCost(id) }
    IN /\ report.result.profitHolders = Cardinality(profit)
       /\ report.result.lossHolders = Cardinality(loss)
       /\ report.result.breakEvenHolders = Cardinality(ActiveHolders \ (profit \cup loss))
       /\ report.result.totalHolders = Cardinality(ActiveHolders)

\* One holder is exactly at +1% and one has no cost basis; both were
\* counted as break-even and nobody as profit.
C26_Witness ==
  /\ report.call = "calculateProfitLossZones"
  /\ \E id \in ActiveHolders :
       OpenCost(id) > 0 /\ ChangeTimes100(id, report.currentPrice) = OpenCost(id)
  /\ \E id \in ActiveHolders : OpenCost(id) = 0
  /\ report.result.profitHolders = 0
  /\ report.result.breakEvenHolders >= 2

\* The distinct prices of the open lots of token 1.
OpenPrices ==
  { cost_basis[i].price_per_token :
      i \in { j \in DOMAIN cost_basis : cost_basis[j].remaining_amount > 0 } }

\* A price starts a bucket iff no bucket started at a lower price has it
\* within band percent of that bucket's representative.
RECURSIVE StartsBucket(_, _)
StartsBucket(price, band) ==
  ~ \E r \in OpenPrices :
      r < price /\ StartsBucket(r, band) /\ 100 * (price - r) <= band * r

\* The representative of the bucket a price lands in: itself, or the
\* earliest started bucket that has it within the band.
BucketOf(price, band) ==
  IF StartsBucket(price, band) THEN price
  ELSE LET near == { r \in OpenPrices :
                       r < price /\ StartsBucket(r, band)
                       /\ 100 * (price - r) <= band * r }
       IN CHOOSE r \in near : \A s \in near : r <= s

\* The open lots whose price landed in the bucket of this representative.
LotsInBucket(level, band) ==
  SelectSeq(cost_basis, LAMBDA l : /\ l.remaining_amount > 0
                                   /\ BucketOf(l.price_per_token, band) = level)

\* C27 (price-level clustering): getHolderPriceLevels returns one level per
\* bucket of the greedy ascending pass, each with the summed remaining
\* amount of the lots whose price joined it, sorted by that amount
\* descending.
C27_Clustering ==
  report.call = "getHolderPriceLevels" =>
    LET levels == report.result
        band == report.priceRangePercent
    IN /\ { levels[i].priceLevel : i \in DOMAIN levels }
            = { p \in OpenPrices : StartsBucket(p, band) }
       /\ \A i, j \in DOMAIN levels :
            levels[i].priceLevel = levels[j].priceLevel => i = j
       /\ \A i \in DOMAIN levels :
            levels[i].totalAmount
              = AmountOf(LotsInBucket(levels[i].priceLevel, band))
       /\ \A i, j \in DOMAIN levels :
            i < j => levels[i].totalAmount >= levels[j].totalAmount

\* The prices 100 and 105 joined the bucket of 100 and 106 started its
\* own; the bucket of 100 holds more and is returned first.
C27_Witness ==
  /\ report.call = "getHolderPriceLevels"
  /\ OpenPrices = {100, 105, 106}
  /\ Len(report.result) = 2
  /\ report.result[1].priceLevel = 100
  /\ report.result[2].priceLevel = 106
  /\ report.result[1].totalAmount > report.result[2].totalAmount

\* C28 (distinct holder count): the holderCount of every returned level is
\* the number of distinct holders with an open lot whose price landed in
\* the level's bucket.
C28_DistinctHolders ==
  report.call = "getHolderPriceLevels" =>
    \A i \in DOMAIN report.result :
      LET lots == LotsInBucket(report.result[i].priceLevel, report.priceRangePercent)
      IN report.result[i].holderCount
           = Cardinality({ lots[k].holder_id : k \in DOMAIN lots })

\* ------------------------------------------------------------- cleanup
\* The holderId argument of cleanupCostBasis: none (NoId), or a holder.
CleanupTargets == {NoId, 1, 2}

\* DELETE FROM cost_basis WHERE remaining_amount = 0 [AND holder_id = $1]:
\* whether the statement deletes the lot.
Deleted(lot, holderId) ==
  /\ lot.remaining_amount = 0
  /\ (holderId # NoId => lot.holder_id = holderId)

\* cleanupCostBasis (logger.ts 583-604): one DELETE on a pool connection of
\* its own.
CleanupCostBasis(holderId) ==
  /\ cost_basis' = SelectSeq(cost_basis, LAMBDA l : ~ Deleted(l, holderId))
  /\ UNCHANGED <<feed, report, transactions, tokens, holders, nextId, processingQueue,
                 isProcessing, pc, cur, tx, historical, queueNo, curNo, begun,
                 counts, oversold, retrieved>>

\* ------------------------------------------------------------- two holders
\* Later history of a token that two wallets have traded: two sells of
\* one and a buy of the other.
Ledger ==
  { Tx(3, "W1", "sell", 150, 3, 4),
    Tx(4, "W1", "sell", 10, 5, 4),
    Tx(8, "W2", "buy", 30, 2, 5) }

LedgerFetches ==
  { f \in UNION { [1..k -> Ledger] : k \in 0..MaxFetch } :
      \A i, j \in DOMAIN f : i # j => f[i] # f[j] }

\* A processor just constructed on the store an earlier run left: W1
\* bought 100 at 1 (signature 1), W2 bought 50 at 2 (signature 6) and sold
\* them at 3 (signature 7).
LedgerInit ==
  /\ transactions =
       { [id |-> 1, tokenId |-> 1, signature |-> 1, walletAddress |-> "W1",
          transactionType |-> "buy", amount |-> 100, pricePerToken |-> 1,
          blockTime |-> 1],
         [id |-> 2, tokenId |-> 1, signature |-> 6, walletAddress |-> "W2",
          transactionType |-> "buy", amount |-> 50, pricePerToken |-> 2,
          blockTime |-> 2],
         [id |-> 3, tokenId |-> 1, signature |-> 7, walletAddress |-> "W2",
          transactionType |-> "sell", amount |-> 50, pricePerToken |-> 3,
          blockTime |-> 3] }
  /\ tokens = { NewTokenRow(1, "T1") }
  /\ holders =
       { [NewHolderRow(1, 1, "W1") EXCEPT
            !.currentBalance = 100, !.totalBought = 100,
            !.averageBuyPrice = [num |-> 100, den |-> 100],
            !.firstBuyTimestamp = 1, !.isActive = TRUE],
         [NewHolderRow(2, 1, "W2") EXCEPT
            !.totalBought = 50, !.totalSold = 50, !.realizedPnl = 50,
            !.averageBuyPrice = [num |-> 0, den |-> 50],
            !.firstBuyTimestamp = 2] }
  /\ cost_basis = <<NewLot(1, 1, 1, 100, 1, 1),
                    [NewLot(2, 2, 2, 50, 2, 2) EXCEPT !.remaining_amount = 0]>>
  /\ nextId = [token |-> 2, tx |-> 4, holder |-> 3, lot |-> 3]
  /\ processingQueue = <<>>
  /\ isProcessing = FALSE
  /\ pc = [p \in Procs |-> "idle"]
  /\ cur = [p \in Procs |-> NoTx]
  /\ tx = [p \in Procs |-> NoCall]
  /\ historical = <<>>
  /\ queueNo = <<>>
  /\ curNo = 0
  /\ begun = <<>>
  /\ counts = [arrivals |-> 0, failures |-> 0, backfills |-> 0]
  /\ oversold = {}
  /\ retrieved = <<>>
  /\ report = NoReport
  /\ NewClient

\* processTransaction on that store for these events: the token and both
\* holders exist, so neither get-or-create inserts, and no event is a
\* transfer.
ProcessKnown(p) ==
  \/ Begin(p)
  \/ CheckExisting(p)
  \/ TokenSelect(p)
  \/ InsertTransaction(p)
  \/ HolderSelect(p)
  \/ AddPurchase(p)
  \/ ProcessSaleSelect(p)
  \/ ProcessSaleCommit(p)
  \/ AverageBuyPrice(p)
  \/ UpdateHolder(p)
  \/ Commit(p)
  \/ QueryFails(p)

\* The feed, the drain, the backfill and the cleanup job on that store.
LedgerNext ==
  \/ \E t \in Ledger : HandleTransaction(t)
  \/ DrainNext
  \/ DrainCatch
  \/ \E fetched \in LedgerFetches : ProcessHistoricalData(fetched)
  \/ BackfillNext
  \/ BackfillCatch
  \/ \E p \in Procs : ProcessKnown(p)
  \/ \E holderId \in CleanupTargets : CleanupCostBasis(holderId)

LedgerSpec == LedgerInit /\ [][LedgerNext]_vars

\* What the cost-basis queries answer about a holder, and what a sale of
\* the holder starting now would realize and leave open.
Metrics(holderId) ==
  [totalCostBasis |-> GetTotalCostBasis(holderId),
   weightedAverageCostBasis |-> GetWeightedAverageCostBasis(holderId),
   unrealizedPnL |-> [p \in CurrentPrices |-> GetUnrealizedPnL(holderId, p)],
   breakdown |-> GetCostBasisBreakdown(holderId),
   sales |-> [amount \in {10, 150} |->
                LET sale == SaleLoop(SelectFifoEntries(holderId), amount, 3)
                IN [sale EXCEPT !.updates =
                      SelectSeq(@, LAMBDA u : u.remaining_amount > 0)]]]

\* C24 (cleanup is observationally neutral): a cleanup removes exactly the
\* lots with remaining amount 0 of the holder it was called for (of every
\* holder when called without one) and leaves none of them behind, keeps
\* every metric and the result of a later sale as they were, and takes no
\* lot away from under a sale that is yet to write an open amount to it.
C24_CleanupNeutral ==
  [][ /\ Len(cost_basis') < Len(cost_basis) =>
           /\ \E holderId \in CleanupTargets :
                LET gone(l) == /\ l.remaining_amount = 0
                               /\ (holderId = NoId \/ l.holder_id = holderId)
                IN /\ cost_basis' = SelectSeq(cost_basis, LAMBDA l : ~ gone(l))
                   /\ \A i \in DOMAIN cost_basis' : ~ gone(cost_basis'[i])
           /\ \A holderId \in {1, 2} : Metrics(holderId)' = Metrics(holderId)
           /\ UNCHANGED <<transactions, tokens, holders>>
      /\ \A p \in Procs :
           (pc[p] = "saleWrite" /\ pc'[p] = "average") =>
             LET sale == SaleLoop(tx[p].entries, cur[p].amount, cur[p].pricePerToken)
             IN \A k \in DOMAIN sale.updates :
                  sale.updates[k].remaining_amount > 0 =>
                    \E i \in DOMAIN cost_basis : cost_basis[i].id = sale.updates[k].id
    ]_vars

\* C25 (lot ownership): no lot changes its holder, and a step of
\* processTransaction for a wallet leaves the lots and the holders row of
\* every other wallet's holder as they were and adds lots only to the
\* holder it resolved for that wallet.
C25_LotOwnership ==
  [][ /\ \A i \in DOMAIN cost_basis, j \in DOMAIN cost_basis' :
           cost_basis[i].id = cost_basis'[j].id
             => cost_basis[i].holder_id = cost_basis'[j].holder_id
      /\ \A p \in Procs :
           (cur[p] # NoTx /\ pc'[p] # pc[p]) =>
             /\ \A h \in holders :
                  h.walletAddress # cur[p].walletAddress =>
                    /\ h \in holders'
                    /\ LotsOfHolder(cost_basis', h.id) = LotsOfHolder(cost_basis, h.id)
             /\ \A j \in DOMAIN cost_basis' :
                  (\A i \in DOMAIN cost_basis : cost_basis[i].id # cost_basis'[j].id)
                    => /\ cost_basis'[j].holder_id = tx[p].holderId
                       /\ \A h \in holders :
                            h.id = tx[p].holderId
                              => h.walletAddress = cur[p].walletAddress
    ]_vars

\* The buy of W2 has added a lot to holder 2 and a sell of W1 has consumed
\* from the lot of holder 1, whichever came first.
C25_Witness ==
  /\ \E i \in DOMAIN cost_basis :
       cost_basis[i].holder_id = 2 /\ cost_basis[i].remaining_amount = 30
  /\ \E i \in DOMAIN cost_basis :
       cost_basis[i].holder_id = 1 /\ cost_basis[i].remaining_amount < 100
  /\ \E r \in transactions : r.signature = 8
  /\ \E r \in transactions : r.signature = 3

\* C29 (token lifecycle is forward-only): a token row keeps its id and its
\* address, a graduated token stays graduated whatever launch, graduation
\* or transaction follows, and a row that appears is a tracking row of an
\* address that had none.
C29_ForwardOnly ==
  [][ /\ \A t \in tokens :
           \E u \in tokens' :
             /\ u.id = t.id
             /\ u.address = t.address
             /\ (t.status = "graduated" => u.status = "graduated")
      /\ \A u \in tokens' :
           (\A t \in tokens : t.id # u.id) =>
             /\ u.status = "tracking"
             /\ ~ TokenAddressTaken(u.address)
      /\ \A u \in tokens' : u.status \in {"tracking", "graduated"}
    ]_vars

\* The token the chain trades is graduated, has been launched and has a
\* committed transaction, and a further transaction for it is being applied.
C29_Witness ==
  /\ \E t \in tokens :
       /\ t.address = "T1"
       /\ t.status = "graduated"
       /\ t.launchTimestamp # NoTimestamp
       /\ \E r \in transactions : r.tokenId = t.id
       /\ tx["live"].tokenId = t.id
  /\ pc["live"] = "holderSelect"
  /\ ~ TokenAddressTaken("T2")

\* ------------------------------------------------------------- malformed events
\* A feed event whose amount is not a decimal string.
MalformedEvents == { Tx(9, "W1", "buy", NotDecimal, 1, 4) }

\* updatePositionForTransaction: new Big(transaction.amount) throws on an
\* amount that is no decimal; processTransaction's catch rolls back and
\* rethrows.  No lot has been written yet.
InvalidAmount(p) ==
  /\ pc[p] = "position"
  /\ ~ IsDecimal(cur[p].amount)
  /\ tx' = [tx EXCEPT ![p] = RolledBack(p)]
  /\ pc' = [pc EXCEPT ![p] = "threw"]
  /\ UNCHANGED <<feed, report, store, nextId, processingQueue, isProcessing, cur,
                 historical, queueNo, curNo, begun, counts, oversold, retrieved>>

\* The live pipeline on a feed that also delivers a malformed event.
ValidationNext ==
  \/ \E t \in Chain \cup MalformedEvents : HandleTransaction(t)
  \/ DrainNext
  \/ DrainCatch
  \/ ProcessTransaction("live")
  \/ InvalidAmount("live")

ValidationSpec == Init /\ [][ValidationNext]_vars

\* C30 (malformed events are dropped non-fatally): applying a malformed
\* event changes no committed table, and when the drain has disposed of it
\* (no store failure having occurred) the event is out of the queue and
\* the drain goes on with the event queued behind it.
C30_MalformedDropped ==
  [][ (cur["live"] # NoTx /\ ~ IsDecimal(cur["live"].amount)) =>
        /\ store' = store
        /\ (pc["live"] = "threw" /\ pc'["live"] # "threw" /\ counts.failures = 0) =>
             \/ processingQueue = <<>> /\ pc'["live"] = "idle"
             \/ /\ processingQueue # <<>>
                /\ cur'["live"] = Head(processingQueue)
                /\ processingQueue' = Tail(processingQueue)
                /\ pc'["live"] = "begin"
    ]_vars

\* ------------------------------------------------------------- accepted events
\* C31 (zero data loss): when the drain lets go of an event it had taken
\* from the queue, the event's signature is committed or the event is
\* still in the processing queue.
C31_ZeroDataLoss ==
  [][ (cur["live"] # NoTx /\ cur'["live"] # cur["live"]) =>
        \/ \E r \in transactions' : r.signature = cur["live"].signature
        \/ \E i \in DOMAIN processingQueue' : processingQueue'[i] = cur["live"]
    ]_vars

\* C32 (the queue guard never sticks): isProcessing is set exactly while
\* the drain loop is between taking an event and leaving the loop, an
\* event is taken only by the one loop and only between applications, and
\* an arrival that finds no drain running starts one.
C32_GuardNeverSticks ==
  /\ [](isProcessing <=> pc["live"] # "idle")
  /\ [][ /\ begun' # begun =>
              /\ pc["live"] \in {"idle", "committed", "duplicate"}
              /\ isProcessing'
         /\ (counts'.arrivals # counts.arrivals /\ pc["live"] = "idle") =>
              /\ isProcessing'
              /\ pc'["live"] = "begin"
         /\ pc'["live"] = "idle" => ~ isProcessing'
       ]_vars

\* The drain has ended on a throw with an event left in the queue, and a
\* later arrival has started a new drain that took the event left behind.
C32_Witness ==
  /\ counts.failures = 1
  /\ counts.arrivals = 3
  /\ isProcessing
  /\ pc["live"] = "begin"
  /\ begun = <<1, 2>>
  /\ Len(processingQueue) = 1
  /\ tx["live"] = NoCall
  /\ transactions = {}

\* ------------------------------------------------------------- balance
\* The sum of the amounts of a set of transactions rows.
RECURSIVE SumAmounts(_)
SumAmounts(rows) ==
  IF rows = {} THEN 0
  ELSE LET r == CHOOSE x \in rows : TRUE
       IN r.amount + SumAmounts(rows \ {r})

\* The committed transfers of a holder's wallet.
TransfersOf(h) ==
  { r \in transactions : /\ r.tokenId = h.tokenId
                         /\ r.walletAddress = h.walletAddress
                         /\ r.transactionType = "transfer" }

\* C33 (balance accounting): every committed holder has currentBalance =
\* totalBought - totalSold + the amounts of its committed transfers, and
\* no step lowers a holder's totalBought or totalSold.
C33_BalanceAccounting ==
  /\ [](\A h \in holders :
          h.currentBalance = h.totalBought - h.totalSold + SumAmounts(TransfersOf(h)))
  /\ [][\A h \in holders : \A g \in holders' :
          g.id = h.id => /\ g.totalBought >= h.totalBought
                         /\ g.totalSold >= h.totalSold]_vars

\* ---------------------------------------------------------- zone totals
\* The current value in USD of a set of holders: balance times price, summed.
RECURSIVE ValueOf(_, _)
ValueOf(ids, price) ==
  IF ids = {} THEN 0
  ELSE LET id == CHOOSE i \in ids : TRUE
           h == CHOOSE r \in holders : r.id = id
       IN h.currentBalance * price + ValueOf(ids \ {id}, price)

\* C36 (zones partition the active holders): the three counts of
\* calculateProfitLossZones add up to totalHolders, which is the number of
\* holders with isActive and balance > 0, and each bucket's USD total is
\* the summed balance times currentPrice of exactly the holders of that
\* bucket.
C36_ZonesPartition ==
  report.call = "calculateProfitLossZones" =>
    LET p == report.currentPrice
        r == report.result
        profit == { id \in ActiveHolders :
                      OpenCost(id) > 0 /\ ChangeTimes100(id, p) > OpenCost(id) }
        loss == { id \in ActiveHolders :
                    OpenCost(id) > 0 /\ ChangeTimes100(id, p) < 0 - OpenCost(id) }
        even == ActiveHolders \ (profit \cup loss)
    IN /\ r.profitHolders + r.lossHolders + r.breakEvenHolders = r.totalHolders
       /\ r.totalHolders = Cardinality(ActiveHolders)
       /\ r.profitAmountUSD = ValueOf(profit, p)
       /\ r.lossAmountUSD = ValueOf(loss, p)
       /\ r.breakEvenAmountUSD = ValueOf(even, p)
       /\ r.profitAmountUSD + r.lossAmountUSD + r.breakEvenAmountUSD
            = ValueOf(ActiveHolders, p)

\* Three active holders, one in each bucket, each with a positive value.
C36_Witness ==
  /\ report.call = "calculateProfitLossZones"
  /\ report.result.profitHolders = 1
  /\ report.result.lossHolders = 1
  /\ report.result.breakEvenHolders = 1
  /\ report.result.totalHolders = 3
  /\ report.result.profitAmountUSD > 0
  /\ report.result.lossAmountUSD > 0
  /\ report.result.breakEvenAmountUSD > 0

\* ------------------------------------------------------ backfill re-runs
\* How many calls of processHistoricalData the re-run specification follows.
MaxReruns == 2

\* Backfill calls alone, the second one after the first has returned or
\* thrown.
RerunNext ==
  \/ \E fetched \in Fetched(MaxHistorical) :
       ProcessHistoricalDataWithin(fetched, MaxReruns)
  \/ BackfillNext
  \/ BackfillCatch
  \/ ProcessTransaction("backfill")

RerunSpec == Init /\ [][RerunNext]_vars

\* The items of the running backfill call that come before the current one
\* in blockTime order.
AppliedBefore ==
  LET sorted == SortByBlockTime(retrieved)
  IN SubSeq(sorted, 1, Len(sorted) - Len(historical) - 1)

Committed(t) == \E r \in transactions : r.signature = t.signature

\* C35 (backfill is fail-fast): when applying a backfill item throws,
\* processHistoricalData ends the call with the rest of the list unapplied
\* and the items before the failed one committed; no step removes a
\* committed transaction; a backfill call meets a committed signature with a
\* skip that changes nothing in the store and applies the others, so that a
\* call that completes leaves every item of its list committed.
C35_FailFast ==
  [][ /\ (pc["backfill"] = "threw" /\ pc'["backfill"] # "threw") =>
           /\ pc'["backfill"] = "idle"
           /\ historical' = <<>>
           /\ cur'["backfill"] = NoTx
           /\ store' = store
           /\ \A i \in DOMAIN AppliedBefore : Committed(AppliedBefore[i])
      /\ transactions \subseteq transactions'
      /\ (pc["backfill"] = "check" /\ pc'["backfill"] # "check") =>
           IF Committed(cur["backfill"])
           THEN pc'["backfill"] \in {"duplicate", "threw"} /\ store' = store
           ELSE pc'["backfill"] \in {"tokenSelect", "threw"}
      /\ (pc["backfill"] = "duplicate" /\ pc'["backfill"] # "duplicate") =>
           store' = store
      /\ (Returned("backfill") /\ pc'["backfill"] = "idle") =>
           \A i \in DOMAIN retrieved : Committed(retrieved[i])
    ]_vars

\* A second call has completed: it skipped the buy of signature 1, which
\* the first call had committed before it failed on the next item, and
\* committed the buy of signature 2, the item the first call failed on.
C35_Witness ==
  /\ counts.backfills = 2 /\ counts.failures = 1
  /\ pc["backfill"] = "committed" /\ historical = <<>>
  /\ cur["backfill"].signature = 2
  /\ Len(retrieved) = 2
  /\ \E r \in transactions : r.signature = 1 /\ r.id = 1
  /\ \E r \in transactions : r.signature = 2 /\ r.id = 3
  /\ Cardinality(transactions) = 2

\* ------------------------------------------------------- connection pool
\* The largest pool size followed: one connection more than the two calls
\* of processTransaction that can run side by side need at the same time.
MaxPool == 3

PoolSizes == 1..MaxPool

\* The events the pool specification feeds: a buy, a sell and a transfer.
PoolEvents == { t \in Chain : t.signature \in {1, 3, 5} }

\* The state after construction over a pool of some size; the size is kept
\* beside the other counters.
PoolInit ==
  /\ \E size \in PoolSizes :
       counts = [arrivals |-> 0, failures |-> 0, backfills |-> 0, pool |-> size]
  /\ transactions = {}
  /\ tokens = {}
  /\ holders = {}
  /\ cost_basis = <<>>
  /\ nextId = [token |-> 1, tx |-> 1, holder |-> 1, lot |-> 1]
  /\ processingQueue = <<>>
  /\ isProcessing = FALSE
  /\ pc = [p \in Procs |-> "idle"]
  /\ cur = [p \in Procs |-> NoTx]
  /\ tx = [p \in Procs |-> NoCall]
  /\ historical = <<>>
  /\ queueNo = <<>>
  /\ curNo = 0
  /\ begun = <<>>
  /\ oversold = {}
  /\ retrieved = <<>>
  /\ report = NoReport
  /\ NewClient

\* The pool connections a call of processTransaction has checked out: its
\* own from connect() to release() in the finally block, and the one of
\* processSale between its BEGIN and its COMMIT.
Held(p) ==
  (IF InFlight(p) THEN 1 ELSE 0) + (IF pc[p] = "saleWrite" THEN 1 ELSE 0)

Idle == counts.pool - (Held("live") + Held("backfill"))

\* The call is at an await of this.db.connect() inside addPurchase,
\* processSale or getTotalCostBasis, with its own connection checked out.
AwaitsSecond(p) ==
  \/ /\ pc[p] = "position"
     /\ IsDecimal(cur[p].amount)
     /\ cur[p].transactionType \in {"buy", "sell"}
  \/ /\ pc[p] = "average"
     /\ NewTotalBought(tx[p].currentPosition, cur[p]) > 0

\* pool.connect(): resolves when a connection is idle, and waits otherwise.
PoolConnect(p) ==
  /\ Idle > 0
  /\ \/ Begin(p)
     \/ AddPurchase(p)
     \/ ProcessSaleSelect(p)
     \/ AwaitsSecond(p) /\ AverageBuyPrice(p)

\* The steps of processTransaction that run on a connection already
\* checked out; a store failure needs a query in flight.
OnConnection(p) ==
  \/ CheckExisting(p)
  \/ TokenSelect(p)
  \/ TokenInsert(p)
  \/ InsertTransaction(p)
  \/ HolderSelect(p)
  \/ HolderInsert(p)
  \/ ProcessSaleCommit(p)
  \/ TransferCase(p)
  \/ ~ AwaitsSecond(p) /\ AverageBuyPrice(p)
  \/ UpdateHolder(p)
  \/ Commit(p)
  \/ ~ AwaitsSecond(p) /\ QueryFails(p)

PoolNext ==
  \/ \E t \in PoolEvents : HandleTransaction(t)
  \/ DrainNext
  \/ DrainCatch
  \/ \E fetched \in { f \in Fetches : \A i \in DOMAIN f : f[i] \in PoolEvents } :
       ProcessHistoricalData(fetched)
  \/ BackfillNext
  \/ BackfillCatch
  \/ \E p \in Procs : PoolConnect(p) \/ OnConnection(p)

PoolSpec == PoolInit /\ [][PoolNext]_vars

\* C34 (termination): no call of processTransaction waits for a second pool
\* connection while every connection of the pool is checked out by calls
\* that are themselves waiting for one, whatever the pool size.
C34_NoPoolDeadlock ==
  ~ \E p \in Procs :
      /\ AwaitsSecond(p)
      /\ Idle = 0
      /\ \A q \in Procs \ {p} : InFlight(q) => AwaitsSecond(q)

\* ------------------------------------------------------------ feed client
\* private maxReconnectAttempts = 10
maxReconnectAttempts == 10

\* How many WebSockets the client is followed through.
MaxSockets == 4

\* The token addresses the application subscribes to.
FeedTokens == {"T1"}

\* new WebSocket(this.wsUrl, ...) inside connect(): readyState CONNECTING,
\* the promise of this connect() call unsettled, its 30 second timeout
\* pending.  fromTimer tells a connect() called by the reconnection callback
\* from one called by the application; subscriptions is what the server has
\* been sent on this socket.
NewSocket(fromTimer) ==
  [readyState |-> "CONNECTING", pending |-> TRUE, timeout |-> TRUE,
   fromTimer |-> fromTimer, subscriptions |-> {}]

\* A closed socket: nothing of it can act any more.
ClosedSocket ==
  [readyState |-> "CLOSED", pending |-> FALSE, timeout |-> FALSE,
   fromTimer |-> FALSE, subscriptions |-> {}]

\* handleReconnection (lines 388-412) up to its setTimeout: the new
\* reconnectAttempts, the timers it adds, and whether it gave up.
Schedule(attempts) ==
  IF attempts >= maxReconnectAttempts
  THEN [attempts |-> attempts, timers |-> 0, gaveUp |-> TRUE]
  ELSE [attempts |-> attempts + 1, timers |-> 1, gaveUp |-> FALSE]

\* handleReconnection called n times in a row.
RECURSIVE ScheduleTimes(_, _)
ScheduleTimes(n, attempts) ==
  IF n = 0 THEN [attempts |-> attempts, timers |-> 0, gaveUp |-> FALSE]
  ELSE LET first == Schedule(attempts)
           rest == ScheduleTimes(n - 1, first.attempts)
       IN [attempts |-> rest.attempts, timers |-> first.timers + rest.timers,
           gaveUp |-> first.gaveUp \/ rest.gaveUp]

Events(base, names) == base \cup names

\* The application calls connect() (lines 54-98) when it has no socket: a
\* new socket becomes this.ws.
Connect ==
  /\ ws = NoSocket
  /\ Len(sockets) < MaxSockets
  /\ sockets' = Append(sockets, NewSocket(FALSE))
  /\ ws' = Len(sockets) + 1
  /\ UNCHANGED <<reconnectAttempts, isConnected, subscribedTokens, heartbeatInterval,
                 timers, emitted>>
  /\ UNCHANGED <<store, nextId, processingQueue, isProcessing, pc, cur, tx,
                 historical, queueNo, curNo, begun, counts, oversold, retrieved, report>>

\* The setTimeout callback of handleReconnection runs (lines 400-402):
\* connect() makes a new socket this.ws and awaits its open.
ReconnectTimer ==
  /\ timers > 0
  /\ Len(sockets) < MaxSockets
  /\ timers' = timers - 1
  /\ sockets' = Append(sockets, NewSocket(TRUE))
  /\ ws' = Len(sockets) + 1
  /\ UNCHANGED <<reconnectAttempts, isConnected, subscribedTokens, heartbeatInterval,
                 emitted>>
  /\ UNCHANGED <<store, nextId, processingQueue, isProcessing, pc, cur, tx,
                 historical, queueNo, curNo, begun, counts, oversold, retrieved, report>>

\* A socket opens.  The 'open' handlers (lines 73-80, 106-110) set
\* isConnected, reset reconnectAttempts, start the heartbeat and resolve the
\* promise; a reconnection callback awaiting it goes on to subscribeToToken
\* for every subscribed token (403-406), which sends on this.ws, and send()
\* throws on a CONNECTING socket: the catch calls handleReconnection.
SocketOpen(s) ==
  /\ sockets[s].readyState = "CONNECTING"
  /\ isConnected' = TRUE
  /\ heartbeatInterval' = TRUE
  /\ LET opened == [sockets EXCEPT ![s].readyState = "OPEN", ![s].pending = FALSE,
                                   ![s].timeout = FALSE]
         resumes == sockets[s].pending /\ sockets[s].fromTimer
         sends == resumes /\ subscribedTokens # {} /\ ws # NoSocket
         throws == sends /\ opened[ws].readyState = "CONNECTING"
         delivered == sends /\ opened[ws].readyState = "OPEN"
         after == ScheduleTimes(IF throws THEN 1 ELSE 0, 0)
     IN /\ reconnectAttempts' = after.attempts
        /\ timers' = timers + after.timers
        /\ emitted' = emitted
        /\ sockets' = IF delivered
                      THEN [opened EXCEPT ![ws].subscriptions = @ \cup subscribedTokens]
                      ELSE opened
  /\ UNCHANGED <<ws, subscribedTokens>>
  /\ UNCHANGED <<store, nextId, processingQueue, isProcessing, pc, cur, tx,
                 historical, queueNo, curNo, begun, counts, oversold, retrieved, report>>

\* A socket closes: a failed attempt ('error', then 'close'), a dropped
\* connection, or the end of a close() the client asked for.  The 'close'
\* handler (lines 112-118) clears isConnected, stops the heartbeat, emits
\* disconnected and calls handleReconnection; the 'error' of a socket that
\* never opened rejects the promise of its connect() (82-85), and the catch
\* of a reconnection callback calls handleReconnection again (407-410).
SocketClose(s) ==
  /\ sockets[s].readyState # "CLOSED"
  /\ isConnected' = FALSE
  /\ heartbeatInterval' = FALSE
  /\ LET rejected == sockets[s].pending /\ sockets[s].fromTimer
         after == ScheduleTimes(IF rejected THEN 2 ELSE 1, reconnectAttempts)
     IN /\ reconnectAttempts' = after.attempts
        /\ timers' = timers + after.timers
        /\ emitted' = Events(emitted, IF after.gaveUp
                                      THEN {"maxReconnectAttemptsReached"} ELSE {})
  /\ sockets' = [sockets EXCEPT ![s] = ClosedSocket]
  /\ UNCHANGED <<ws, subscribedTokens>>
  /\ UNCHANGED <<store, nextId, processingQueue, isProcessing, pc, cur, tx,
                 historical, queueNo, curNo, begun, counts, oversold, retrieved, report>>

\* The 30 second timeout of a connect() (lines 88-92): it rejects unless
\* isConnected; the socket itself is left as it is.
ConnectTimeout(s) ==
  /\ sockets[s].timeout
  /\ LET rejected == ~ isConnected /\ sockets[s].pending
         after == ScheduleTimes(IF rejected /\ sockets[s].fromTimer THEN 1 ELSE 0,
                                reconnectAttempts)
     IN /\ reconnectAttempts' = after.attempts
        /\ timers' = timers + after.timers
        /\ emitted' = Events(emitted, IF after.gaveUp
                                      THEN {"maxReconnectAttemptsReached"} ELSE {})
        /\ sockets' = [sockets EXCEPT ![s].timeout = FALSE,
                                      ![s].pending = IF rejected THEN FALSE ELSE @]
  /\ UNCHANGED <<ws, isConnected, subscribedTokens, heartbeatInterval>>
  /\ UNCHANGED <<store, nextId, processingQueue, isProcessing, pc, cur, tx,
                 historical, queueNo, curNo, begun, counts, oversold, retrieved, report>>

\* subscribeToToken (lines 257-275), called by the application on a
\* connected client whose socket is not CONNECTING (send() would throw
\* before the token is added).
SubscribeToToken(tokenAddress) ==
  /\ isConnected /\ ws # NoSocket
  /\ sockets[ws].readyState # "CONNECTING"
  /\ tokenAddress \notin subscribedTokens
  /\ sockets' = IF sockets[ws].readyState = "OPEN"
                THEN [sockets EXCEPT ![ws].subscriptions = @ \cup {tokenAddress}]
                ELSE sockets
  /\ subscribedTokens' = subscribedTokens \cup {tokenAddress}
  /\ UNCHANGED <<ws, reconnectAttempts, isConnected, heartbeatInterval, timers, emitted>>
  /\ UNCHANGED <<store, nextId, processingQueue, isProcessing, pc, cur, tx,
                 historical, queueNo, curNo, begun, counts, oversold, retrieved, report>>

\* disconnect() (lines 417-428): close() on the current socket, whose
\* 'close' event comes later; this.ws = null; the subscriptions are
\* forgotten.  No timer is cleared.
Disconnect ==
  /\ ws # NoSocket
  /\ isConnected' = FALSE
  /\ heartbeatInterval' = FALSE
  /\ sockets' = IF sockets[ws].readyState = "CLOSED" THEN sockets
                ELSE [sockets EXCEPT ![ws].readyState = "CLOSING"]
  /\ ws' = NoSocket
  /\ subscribedTokens' = {}
  /\ UNCHANGED <<reconnectAttempts, timers, emitted>>
  /\ UNCHANGED <<store, nextId, processingQueue, isProcessing, pc, cur, tx,
                 historical, queueNo, curNo, begun, counts, oversold, retrieved, report>>

ClientNext ==
  \/ Connect
  \/ ReconnectTimer
  \/ \E s \in DOMAIN sockets : SocketOpen(s)
  \/ \E s \in DOMAIN sockets : SocketClose(s)
  \/ \E s \in DOMAIN sockets : ConnectTimeout(s)
  \/ \E tokenAddress \in FeedTokens : SubscribeToToken(tokenAddress)
  \/ Disconnect

ClientSpec == Init /\ [][ClientNext]_vars

\* The sockets that are open or opening.
LiveSockets == { s \in DOMAIN sockets : sockets[s].readyState \in {"CONNECTING", "OPEN"} }

\* C37 (explicit disconnect is final): while this.ws is null, as
\* disconnect() leaves it, no step schedules a reconnection and no
\* reconnection callback opens a WebSocket; only a connect() of the
\* application makes a socket again.
C37_DisconnectFinal ==
  [][ ws = NoSocket =>
        /\ timers' <= timers
        /\ Len(sockets') > Len(sockets) => ~ sockets'[Len(sockets')].fromTimer
    ]_vars

\* C38 (single reconnection in flight): there is never more than one
\* pending reconnect timer, never more than one open or opening socket,
\* never two open sockets subscribed to the same token; and the failure of
\* a connection attempt schedules exactly one further attempt.
C38_SingleReconnection ==
  /\ [](/\ timers <= 1
        /\ Cardinality(LiveSockets) <= 1
        /\ \A r, s \in DOMAIN sockets :
             (r # s /\ sockets[r].readyState = "OPEN" /\ sockets[s].readyState = "OPEN")
               => sockets[r].subscriptions \cap sockets[s].subscriptions = {})
  /\ [][\A s \in DOMAIN sockets :
          ( /\ sockets[s].readyState = "CONNECTING"
            /\ sockets'[s].readyState = "CLOSED"
            /\ reconnectAttempts < maxReconnectAttempts )
            => timers' = timers + 1]_vars

\* C39 (bounded retry): reconnectAttempts stays within 0..10; an open
\* resets it to 0 (a callback that goes on to schedule again counts from
\* there); a close at the maximum emits maxReconnectAttemptsReached and
\* adds no timer; and when a reconnection attempt opens, every token of
\* subscribedTokens is subscribed on an open socket.
C39_BoundedRetry ==
  /\ [](reconnectAttempts \in 0..maxReconnectAttempts)
  /\ [][\A s \in DOMAIN sockets :
          /\ ( sockets[s].readyState = "CONNECTING" /\ sockets'[s].readyState = "OPEN" )
               => /\ reconnectAttempts' = 0 \/ timers' > timers
                  /\ ( sockets[s].pending /\ sockets[s].fromTimer )
                       => \E r \in DOMAIN sockets' :
                            /\ sockets'[r].readyState = "OPEN"
                            /\ subscribedTokens' \subseteq sockets'[r].subscriptions
          /\ ( /\ sockets[s].readyState # "CLOSED"
               /\ sockets'[s].readyState = "CLOSED"
               /\ reconnectAttempts = maxReconnectAttempts )
               => /\ timers' = timers
                  /\ "maxReconnectAttemptsReached" \in emitted'
       ]_vars

====
